---------------------------- MODULE Spec2Model ----------------------------
(***************************************************************************)
(* A model of the TLSF memory pool of tlsf-pmr (src/src/pool.cpp with the  *)
(* block utilities of block.cpp, the second translation unit kept in       *)
(* src/unnamed/part_000, lines 269-559), for the 64-bit build.             *)
(*                                                                         *)
(* Machine words.  A size_t value of the interface is a tuple of four      *)
(* 16-bit limbs, so that requests up to SIZE_MAX are computed with modulo  *)
(* 2^64; the bitmaps are sets of bit positions.  The words the pool keeps  *)
(* in memory (block sizes, addresses) are small and are kept as integers;  *)
(* SzOf and SzVal convert.                                                 *)
(*                                                                         *)
(* Memory.  mem maps the address of every 8-byte word the pool can touch   *)
(* to the word's value: the region obtained from malloc_func, the words    *)
(* just after it, and the four words of the pool's block_null member.      *)
(* An access to any other address is undefined behaviour and sets ub.      *)
(* The model follows the NDEBUG build: assert() expands to nothing.        *)
(***************************************************************************)
EXTENDS Integers, FiniteSets, Sequences, TLC

(***************************************************************************)
(* Program constants (64-bit build).                                       *)
(***************************************************************************)
SIZE_BITS == 64
UINT_BITS == 32
PTR_SIZE == 8
ALIGN_SIZE_LOG2 == 3
FL_INDEX_MAX == 32
SL_INDEX_COUNT_LOG2 == 5
BLOCK_HEADER_FREE_BIT == 1
BLOCK_HEADER_PREV_FREE_BIT == 2
BLOCK_HEADER_OVERHEAD == 8
BLOCK_START_OFFSET == 16
SIZEOF_BLOCK_HEADER == 32

ALIGN_SIZE == 2 ^ ALIGN_SIZE_LOG2
SL_INDEX_COUNT == 2 ^ SL_INDEX_COUNT_LOG2
FL_INDEX_SHIFT == SL_INDEX_COUNT_LOG2 + ALIGN_SIZE_LOG2
FL_INDEX_COUNT == FL_INDEX_MAX - FL_INDEX_SHIFT + 1
SMALL_BLOCK_SIZE == 2 ^ FL_INDEX_SHIFT
BLOCK_SIZE_MIN == SIZEOF_BLOCK_HEADER - PTR_SIZE

(***************************************************************************)
(* size_t words: <<l0, l1, l2, l3>>, four 16-bit limbs, least significant  *)
(* first.                                                                  *)
(***************************************************************************)
LIMB_BITS == SIZE_BITS \div 4
LIMB == 2 ^ LIMB_BITS

SZ_ZERO == <<0, 0, 0, 0>>
SZ_ONE == <<1, 0, 0, 0>>
\* SIZE_MAX
SZ_MAX == <<LIMB - 1, LIMB - 1, LIMB - 1, LIMB - 1>>
\* static_cast<std::size_t>(1) << FL_INDEX_MAX
BLOCK_SIZE_MAX == <<0, 0, 2 ^ (FL_INDEX_MAX - 2 * LIMB_BITS), 0>>

\* the word of a natural number below 2^31
SzOf(n) == <<n % LIMB, n \div LIMB, 0, 0>>
\* the natural number of a word below 2^31
SzVal(w) == w[1] + LIMB * w[2]
SzFits(w) == w[3] = 0 /\ w[4] = 0 /\ w[2] < LIMB \div 2

\* a + b modulo 2^64
SzAdd(a, b) ==
    LET s1 == a[1] + b[1]
        s2 == a[2] + b[2] + (s1 \div LIMB)
        s3 == a[3] + b[3] + (s2 \div LIMB)
        s4 == a[4] + b[4] + (s3 \div LIMB)
    IN  <<s1 % LIMB, s2 % LIMB, s3 % LIMB, s4 % LIMB>>

\* ~a
SzNot(a) == <<LIMB - 1 - a[1], LIMB - 1 - a[2], LIMB - 1 - a[3],
              LIMB - 1 - a[4]>>
\* a - b modulo 2^64
SzSub(a, b) == SzAdd(SzAdd(a, SzNot(b)), SZ_ONE)

RECURSIVE BitAnd(_, _)
BitAnd(x, y) ==
    IF x = 0 \/ y = 0 THEN 0
    ELSE (x % 2) * (y % 2) + 2 * BitAnd(x \div 2, y \div 2)

\* a & b
SzAnd(a, b) == <<BitAnd(a[1], b[1]), BitAnd(a[2], b[2]),
                 BitAnd(a[3], b[3]), BitAnd(a[4], b[4])>>

\* unsigned a < b
WLt(a, b) ==
    \/ a[4] < b[4]
    \/ a[4] = b[4] /\ a[3] < b[3]
    \/ a[4] = b[4] /\ a[3] = b[3] /\ a[2] < b[2]
    \/ a[4] = b[4] /\ a[3] = b[3] /\ a[2] = b[2] /\ a[1] < b[1]
WLe(a, b) == a = b \/ WLt(a, b)

\* a >> k, 0 <= k < 64
SzShr(a, k) ==
    LET q == k \div LIMB_BITS
        r == k % LIMB_BITS
        L(i) == IF i <= 4 THEN a[i] ELSE 0
        At(i) == (L(i + q) \div (2 ^ r))
                     + (L(i + q + 1) % (2 ^ r)) * (2 ^ (LIMB_BITS - r))
    IN  <<At(1), At(2), At(3), At(4)>>

\* 2^k - 1, 0 <= k <= 64
SzLowMask(k) ==
    LET Part(i) == IF k >= LIMB_BITS * i THEN LIMB - 1
                   ELSE IF k <= LIMB_BITS * (i - 1) THEN 0
                   ELSE 2 ^ (k - LIMB_BITS * (i - 1)) - 1
    IN  <<Part(1), Part(2), Part(3), Part(4)>>

\* the one bits of the unsigned int with limbs lo, hi, as a bitmap
UIntBits(lo, hi) ==
    {i \in 0..(UINT_BITS - 1) :
        IF i < LIMB_BITS THEN (lo \div (2 ^ i)) % 2 = 1
        ELSE (hi \div (2 ^ (i - LIMB_BITS))) % 2 = 1}

(***************************************************************************)
(* Bit utilities (block.cpp).  An unsigned int bitmap is the set of the    *)
(* positions of its one bits.                                              *)
(***************************************************************************)
SetMax(S) == CHOOSE m \in S : \A k \in S : k <= m
SetMin(S) == CHOOSE m \in S : \A k \in S : m <= k

\* a tlsf_ffs that finds the highest one bit
tlsf_ffs_highest(word) == IF word = {} THEN -1 ELSE SetMax(word)

\* __builtin_ffs(word) - 1
tlsf_ffs(word) == IF word = {} THEN -1 ELSE SetMin(word)

\* a tlsf_fls that finds the lowest one bit
tlsf_fls_lowest(word) == IF word = {} THEN -1 ELSE SetMin(word)

\* (word ? 32 - __builtin_clz(word) : 0) - 1
tlsf_fls(word) == IF word = {} THEN -1 ELSE SetMax(word)

\* int high = (int)(size >> 32); the low half is (int)size & 0xffffffff
tlsf_fls_sizet(size) ==
    LET high == UIntBits(size[3], size[4])
    IN  IF high /= {} THEN UINT_BITS + tlsf_fls(high)
        ELSE tlsf_fls(UIntBits(size[1], size[2]))

align_up(x, align) ==
    LET m == SzSub(align, SZ_ONE)
    IN  SzAnd(SzAdd(x, m), SzNot(m))

align_down(x, align) ==
    SzSub(x, SzAnd(x, SzSub(align, SZ_ONE)))

tlsf_min(a, b) == IF WLt(a, b) THEN a ELSE b
tlsf_max(a, b) == IF WLt(b, a) THEN a ELSE b

(***************************************************************************)
(* Size mapping and request adjustment (block.cpp).                        *)
(***************************************************************************)
\* What a build makes of the int expression (1 << k) - 1, converted to
\* size_t.  For k >= 32 the shift is undefined: "x86" takes the count
\* modulo 32 as the SHL instruction does, "zero" shifts the bit out and
\* leaves -1.
ShiftUB == {"x86", "zero"}
RoundMask(k, ubs) ==
    IF k < UINT_BITS THEN SzLowMask(k)
    ELSE IF ubs = "x86" THEN SzLowMask(k % UINT_BITS)
    ELSE SZ_MAX

mapping_insert(size) ==
    IF WLt(size, SzOf(SMALL_BLOCK_SIZE))
    THEN [fl |-> 0,
          sl |-> SzVal(size) \div (SMALL_BLOCK_SIZE \div SL_INDEX_COUNT)]
    ELSE LET fl == tlsf_fls_sizet(size)
             \* (int)(size >> (fl - SL_INDEX_COUNT_LOG2)), in 32..63
             sh == SzShr(size, fl - SL_INDEX_COUNT_LOG2)[1]
             \* ^ (1 << SL_INDEX_COUNT_LOG2)
             x  == IF (sh \div SL_INDEX_COUNT) % 2 = 1
                   THEN sh - SL_INDEX_COUNT ELSE sh + SL_INDEX_COUNT
         IN  [fl |-> fl - (FL_INDEX_SHIFT - 1), sl |-> x]

mapping_search(size, ubs) ==
    IF WLe(SzOf(SMALL_BLOCK_SIZE), size)
    THEN LET round == RoundMask(tlsf_fls_sizet(size) - SL_INDEX_COUNT_LOG2, ubs)
         IN  mapping_insert(SzAdd(size, round))
    ELSE mapping_insert(size)

adjust_request_size(size, align) ==
    IF size = SZ_ZERO THEN SZ_ZERO
    ELSE LET aligned == align_up(size, align)
         IN  IF WLt(aligned, BLOCK_SIZE_MAX)
             THEN tlsf_max(aligned, SzOf(BLOCK_SIZE_MIN))
             ELSE SZ_ZERO

\* an align_ptr that leaves the address as it is
align_ptr_same(ptr, align) == ptr

\* (ptr + (align - 1)) & ~(align - 1) on an address
align_ptr(ptr, align) == ((ptr + (align - 1)) \div align) * align

(***************************************************************************)
(* The pool state handed to the operations: a record S with                *)
(*   mem          the words of memory, by address                          *)
(*   fl_bitmap    unsigned int                                             *)
(*   sl_bitmap    unsigned int [FL_INDEX_COUNT]                            *)
(*   blocks       block_header* [FL_INDEX_COUNT][SL_INDEX_COUNT]           *)
(*   memory_pool  char*, the region                                        *)
(*   pool_size    size_t, the region's length in bytes                     *)
(*   ub           undefined behaviour has happened                         *)
(***************************************************************************)
NULLPTR == 0
\* &this->block_null: the address of the pool object's member
BLOCK_NULL == 256

\* offsets of the fields of struct block_header
OFF_PREV_PHYS == 0
OFF_SIZE == 8
OFF_NEXT_FREE == 16
OFF_PREV_FREE == 24

Rd(S, a) == IF a \in DOMAIN S.mem THEN S.mem[a] ELSE 0
Wr(S, a, v) == IF a \in DOMAIN S.mem THEN [S EXCEPT !.mem[a] = v]
               ELSE [S EXCEPT !.ub = TRUE]
\* a read of the word at a
Touch(S, a) == IF a \in DOMAIN S.mem THEN S ELSE [S EXCEPT !.ub = TRUE]

(***************************************************************************)
(* block_header methods (block.hpp, block.cpp).                            *)
(***************************************************************************)
FlagBits(v) == v % (2 * BLOCK_HEADER_PREV_FREE_BIT)
HasBit(v, bit) == (v \div bit) % 2 = 1
SetBit(v, bit) == IF HasBit(v, bit) THEN v ELSE v + bit
ClearBit(v, bit) == IF HasBit(v, bit) THEN v - bit ELSE v

get_size(S, b) == LET v == Rd(S, b + OFF_SIZE) IN v - FlagBits(v)
is_last(S, b) == get_size(S, b) = 0
is_free(S, b) == HasBit(Rd(S, b + OFF_SIZE), BLOCK_HEADER_FREE_BIT)
is_prev_free(S, b) == HasBit(Rd(S, b + OFF_SIZE), BLOCK_HEADER_PREV_FREE_BIT)

\* new_size | (old_size & 3)
set_size(S, b, new_size) ==
    LET old == FlagBits(Rd(S, b + OFF_SIZE))
        f0  == IF HasBit(old, BLOCK_HEADER_FREE_BIT) THEN
                   SetBit(new_size, BLOCK_HEADER_FREE_BIT) ELSE new_size
        f1  == IF HasBit(old, BLOCK_HEADER_PREV_FREE_BIT) THEN
                   SetBit(f0, BLOCK_HEADER_PREV_FREE_BIT) ELSE f0
    IN  Wr(S, b + OFF_SIZE, f1)

set_free(S, b) ==
    Wr(S, b + OFF_SIZE, SetBit(Rd(S, b + OFF_SIZE), BLOCK_HEADER_FREE_BIT))
set_used(S, b) ==
    Wr(S, b + OFF_SIZE, ClearBit(Rd(S, b + OFF_SIZE), BLOCK_HEADER_FREE_BIT))
set_prev_free(S, b) ==
    Wr(S, b + OFF_SIZE, SetBit(Rd(S, b + OFF_SIZE), BLOCK_HEADER_PREV_FREE_BIT))
set_prev_used(S, b) ==
    Wr(S, b + OFF_SIZE, ClearBit(Rd(S, b + OFF_SIZE), BLOCK_HEADER_PREV_FREE_BIT))

to_void_ptr(b) == b + BLOCK_START_OFFSET
\* ptr - BLOCK_START_OFFSET in pointer arithmetic: below 0 it wraps to the
\* top of the address space, for which -1 stands
from_void_ptr(ptr) ==
    IF ptr >= BLOCK_START_OFFSET THEN ptr - BLOCK_START_OFFSET ELSE -1
offset_to_block(ptr, blk_size) == ptr + blk_size

get_next(S, b) ==
    offset_to_block(to_void_ptr(b), get_size(S, b) - BLOCK_HEADER_OVERHEAD)

link_next(S, b) == Wr(S, get_next(S, b) + OFF_PREV_PHYS, b)

\* a mark_as_free that leaves the next block's prev-free flag alone
mark_as_free_own(S, b) == set_free(link_next(S, b), b)

\* next = link_next(); next->set_prev_free(); set_free()
mark_as_free(S, b) ==
    set_free(set_prev_free(link_next(S, b), get_next(S, b)), b)

\* a mark_as_used that leaves the next block's flag as it is
mark_as_used_own(S, b) == set_used(S, b)

\* next = get_next(); next->set_prev_used(); set_used()
mark_as_used(S, b) ==
    set_used(set_prev_used(S, get_next(S, b)), b)

\* a can_split that never lets a block be split
can_split_never(S, b, size) == FALSE

\* get_size() >= sizeof(block_header) + size, in size_t
can_split(S, b, size) ==
    WLe(SzAdd(SzOf(SIZEOF_BLOCK_HEADER), size), SzOf(get_size(S, b)))

\* A function that returns a block gives the record [S, block] of the
\* state it leaves and the block; With hands both to what follows.
With(R, F(_, _)) == F(R.S, R.block)

\* remaining->set_size(remain_size); block->set_size(size);
\* remaining->mark_as_free().  size is below the block's size here
\* (can_split), so an integer
block_split(S, block, size) ==
    LET remaining == offset_to_block(to_void_ptr(block),
                                     size - BLOCK_HEADER_OVERHEAD)
        remain_size == get_size(S, block) - (size + BLOCK_HEADER_OVERHEAD)
    IN  [S |-> mark_as_free(
                   set_size(set_size(S, remaining, remain_size), block, size),
                   remaining),
         block |-> remaining]

\* a block_coalesce that leaves the header of block out of the new size
block_coalesce_short(S, prev, block) ==
    [S |-> link_next(Wr(S, prev + OFF_SIZE,
                        Rd(S, prev + OFF_SIZE) + get_size(S, block)),
                     prev),
     block |-> prev]

\* prev->size += block->get_size() + BLOCK_HEADER_OVERHEAD; prev->link_next()
block_coalesce(S, prev, block) ==
    [S |-> link_next(Wr(S, prev + OFF_SIZE,
                        Rd(S, prev + OFF_SIZE) + get_size(S, block)
                            + BLOCK_HEADER_OVERHEAD),
                     prev),
     block |-> prev]

(***************************************************************************)
(* tlsf_pool private methods (pool.cpp).  Each takes the pool state S and  *)
(* gives the state it leaves; those that return a block give [S, block].   *)
(***************************************************************************)
FlRange == 0..(FL_INDEX_COUNT - 1)
SlRange == 0..(SL_INDEX_COUNT - 1)
\* an index into blocks[][] or sl_bitmap[] outside the arrays
BadIndex(fl, sl) == fl \notin FlRange \/ sl \notin SlRange

\* a remove_free_block that leaves the bits of an emptied list set
remove_free_block_bits_kept(S, block, fl, sl) ==
    LET prev == Rd(S, block + OFF_PREV_FREE)
        next == Rd(S, block + OFF_NEXT_FREE)
        linked == Wr(Wr(Touch(Touch(S, block + OFF_PREV_FREE),
                              block + OFF_NEXT_FREE),
                        next + OFF_PREV_FREE, prev),
                     prev + OFF_NEXT_FREE, next)
    IN  IF BadIndex(fl, sl) THEN [linked EXCEPT !.ub = TRUE]
        ELSE [linked EXCEPT
                 !.blocks[fl][sl] = IF @ = block THEN next ELSE @]

remove_free_block(S, block, fl, sl) ==
    LET prev == Rd(S, block + OFF_PREV_FREE)
        next == Rd(S, block + OFF_NEXT_FREE)
        \* next->prev_free = prev; prev->next_free = next
        linked == Wr(Wr(Touch(Touch(S, block + OFF_PREV_FREE),
                              block + OFF_NEXT_FREE),
                        next + OFF_PREV_FREE, prev),
                     prev + OFF_NEXT_FREE, next)
        head == S.blocks[fl][sl] = block
        emptied == head /\ next = BLOCK_NULL
        cleared == emptied /\ S.sl_bitmap[fl] \ {sl} = {}
    IN  IF BadIndex(fl, sl) THEN [linked EXCEPT !.ub = TRUE]
        ELSE [linked EXCEPT
                 !.blocks[fl][sl] = IF head THEN next ELSE @,
                 !.sl_bitmap[fl] = IF emptied THEN @ \ {sl} ELSE @,
                 !.fl_bitmap = IF cleared THEN @ \ {fl} ELSE @]

insert_free_block(S, block, fl, sl) ==
    IF BadIndex(fl, sl) THEN [S EXCEPT !.ub = TRUE]
    ELSE LET current == S.blocks[fl][sl]
         IN  [Wr(Wr(Wr(S, block + OFF_NEXT_FREE, current),
                    block + OFF_PREV_FREE, BLOCK_NULL),
                 current + OFF_PREV_FREE, block)
              EXCEPT !.blocks[fl][sl] = block,
                     !.fl_bitmap = @ \cup {fl},
                     !.sl_bitmap[fl] = @ \cup {sl}]

\* gives [block, fl, sl, ub]; ub when the lookup indexes the arrays out
\* of range (an empty sl_bitmap word under a set fl_bitmap bit)
search_suitable_block(S, fli, sli) ==
    LET sl_map0 == {k \in S.sl_bitmap[fli] : k >= sli}
        fl_map == {k \in S.fl_bitmap : k >= fli + 1}
        fl == IF sl_map0 = {} THEN tlsf_ffs(fl_map) ELSE fli
        sl_map == IF sl_map0 = {}
                  THEN (IF fl \in FlRange THEN S.sl_bitmap[fl] ELSE {})
                  ELSE sl_map0
        sl == tlsf_ffs(sl_map)
    IN  IF sl_map0 = {} /\ fl_map = {}
        THEN [block |-> NULLPTR, fl |-> fli, sl |-> sli, ub |-> FALSE]
        ELSE IF BadIndex(fl, sl)
        THEN [block |-> NULLPTR, fl |-> fl, sl |-> sl, ub |-> TRUE]
        ELSE [block |-> S.blocks[fl][sl], fl |-> fl, sl |-> sl, ub |-> FALSE]

\* the list of a block: mapping_insert(block->get_size(), &fl, &sl)
ListOf(S, block) == mapping_insert(SzOf(get_size(S, block)))

\* a block_remove that leaves the block on its list
block_remove_kept(S, block) == Touch(S, block + OFF_SIZE)

block_remove(S, block) ==
    LET At(m) == remove_free_block(Touch(S, block + OFF_SIZE), block,
                                   m.fl, m.sl)
    IN  At(ListOf(S, block))

block_insert(S, block) ==
    LET At(m) == insert_free_block(Touch(S, block + OFF_SIZE), block,
                                   m.fl, m.sl)
    IN  At(ListOf(S, block))

trim_free(S, block, size) ==
    IF can_split(S, block, size)
    THEN With(block_split(S, block, SzVal(size)),
              LAMBDA T, remaining_block :
                  block_insert(set_prev_free(link_next(T, block),
                                             remaining_block),
                               remaining_block))
    ELSE Touch(S, block + OFF_SIZE)

\* a merge_prev that never coalesces
merge_prev_never(S, block) == [S |-> S, block |-> block]

merge_prev(S, block) ==
    IF is_prev_free(S, block)
    THEN LET prev == Rd(S, block + OFF_PREV_PHYS)
         IN  block_coalesce(
                 block_remove(Touch(S, block + OFF_PREV_PHYS), prev),
                 prev, block)
    ELSE [S |-> Touch(S, block + OFF_SIZE), block |-> block]

\* a merge_next that never coalesces
merge_next_never(S, block) == [S |-> S, block |-> block]

merge_next(S, block) ==
    LET next == get_next(S, block)
        read == Touch(Touch(S, block + OFF_SIZE), next + OFF_SIZE)
    IN  IF is_free(S, next)
        THEN block_coalesce(block_remove(read, next), block, next)
        ELSE [S |-> read, block |-> block]

trim_used(S, block, size) ==
    IF can_split(S, block, size)
    THEN With(With(block_split(S, block, SzVal(size)),
                   LAMBDA T, remaining_block :
                       merge_next(set_prev_used(T, remaining_block),
                                  remaining_block)),
              block_insert)
    ELSE Touch(S, block + OFF_SIZE)

\* a trim_free_leading that does not put the leading part on a free list
trim_free_leading_lost(S, block, size) ==
    IF can_split(S, block, SzOf(size))
    THEN With(block_split(S, block, size - BLOCK_HEADER_OVERHEAD),
              LAMBDA T, remaining_block :
                  [S |-> link_next(set_prev_free(T, remaining_block), block),
                   block |-> remaining_block])
    ELSE [S |-> Touch(S, block + OFF_SIZE), block |-> block]

\* size is the gap of memalign_pool, an integer
trim_free_leading(S, block, size) ==
    IF can_split(S, block, SzOf(size))
    THEN With(block_split(S, block, size - BLOCK_HEADER_OVERHEAD),
              LAMBDA T, remaining_block :
                  [S |-> block_insert(
                             link_next(set_prev_free(T, remaining_block),
                                       block),
                             block),
                   block |-> remaining_block])
    ELSE [S |-> Touch(S, block + OFF_SIZE), block |-> block]

locate_free(S, size, ubs) ==
    LET Found(F) ==
            IF F.ub THEN [S |-> [S EXCEPT !.ub = TRUE], block |-> NULLPTR]
            ELSE IF F.block = NULLPTR THEN [S |-> S, block |-> NULLPTR]
            ELSE [S |-> remove_free_block(S, F.block, F.fl, F.sl),
                  block |-> F.block]
        Search(m) ==
            IF m.fl < FL_INDEX_COUNT
            THEN Found(search_suitable_block(S, m.fl, m.sl))
            ELSE [S |-> S, block |-> NULLPTR]
    IN  IF size /= SZ_ZERO THEN Search(mapping_search(size, ubs))
        ELSE [S |-> S, block |-> NULLPTR]

\* a prepare_used that trims and marks without the test of block
prepare_used_unchecked(S, block, size) ==
    [S |-> mark_as_used(trim_free(S, block, size), block),
     ret |-> IF block /= NULLPTR THEN to_void_ptr(block) ELSE NULLPTR]

\* gives [S, ret], ret the pointer p
prepare_used(S, block, size) ==
    IF block /= NULLPTR
    THEN [S |-> mark_as_used(trim_free(S, block, size), block),
          ret |-> to_void_ptr(block)]
    ELSE [S |-> S, ret |-> NULLPTR]

(***************************************************************************)
(* tlsf_pool public methods (pool.cpp).  Each gives [S, ret].              *)
(***************************************************************************)
malloc_pool(S, size, ubs) ==
    With(locate_free(S, size, ubs),
         LAMBDA T, block :
             prepare_used(T, block,
                          adjust_request_size(size, SzOf(ALIGN_SIZE))))

\* block > memory_pool + pool_size || block < memory_pool
OutsidePool(S, block) ==
    \/ block = -1
    \/ block > S.memory_pool + S.pool_size
    \/ block < S.memory_pool

free_pool(S, ptr) ==
    IF ptr /= NULLPTR
    THEN LET block == from_void_ptr(ptr)
         IN  IF OutsidePool(S, block) THEN [S |-> S, ret |-> FALSE]
             ELSE With(With(merge_prev(mark_as_free(S, block), block),
                            merge_next),
                       LAMBDA T, merged :
                           [S |-> block_insert(T, merged), ret |-> TRUE])
    ELSE [S |-> S, ret |-> FALSE]

\* memcpy of n bytes, word by word; the last n % 8 bytes are the low bytes
\* of a word (little-endian).  The words of mem are below 2^31, so four
\* bytes or more carry the whole value.
CopyWord(S, dst, src) == Wr(Touch(S, src), dst, Rd(S, src))

CopyBytes(S, dst, src, r) ==
    LET sv == Rd(S, src)
        dv == Rd(S, dst)
        m  == 256 ^ r
    IN  IF r >= 4 THEN Wr(Touch(S, src), dst, sv)
        ELSE Wr(Touch(S, src), dst, (dv - (dv % m)) + (sv % m))

RECURSIVE CopyWords(_, _, _, _)
CopyWords(S, dst, src, k) ==
    IF k = 0 THEN S
    ELSE CopyWord(CopyWords(S, dst, src, k - 1),
                  dst + (k - 1) * PTR_SIZE, src + (k - 1) * PTR_SIZE)

memcpy(S, dst, src, n) ==
    LET k == n \div PTR_SIZE
        r == n % PTR_SIZE
    IN  IF r = 0 THEN CopyWords(S, dst, src, k)
        ELSE CopyBytes(CopyWords(S, dst, src, k),
                       dst + k * PTR_SIZE, src + k * PTR_SIZE, r)

realloc_pool(S, ptr, size, ubs) ==
    IF ptr /= NULLPTR /\ size = SZ_ZERO
    THEN [S |-> free_pool(S, ptr).S, ret |-> NULLPTR]
    ELSE IF ptr = NULLPTR THEN malloc_pool(S, size, ubs)
    ELSE LET block == from_void_ptr(ptr)
             next == get_next(S, block)
             cursize == get_size(S, block)
             combined == SzOf(cursize + get_size(S, next)
                                  + BLOCK_HEADER_OVERHEAD)
             adjust == adjust_request_size(size, SzOf(ALIGN_SIZE))
             read == Touch(Touch(S, block + OFF_SIZE), next + OFF_SIZE)
             minsize == SzVal(tlsf_min(SzOf(cursize), size))
             Moved(R) ==
                 IF R.ret /= NULLPTR
                 THEN [S |-> free_pool(memcpy(R.S, R.ret, ptr, minsize),
                                       ptr).S,
                       ret |-> R.ret]
                 ELSE [S |-> R.S, ret |-> NULLPTR]
         IN  IF /\ WLt(SzOf(cursize), adjust)
                /\ (~is_free(S, next) \/ WLt(combined, adjust))
             THEN Moved(malloc_pool(read, size, ubs))
             ELSE [S |-> trim_used(
                             IF WLt(SzOf(cursize), adjust)
                             THEN mark_as_used(merge_next(read, block).S,
                                               block)
                             ELSE read,
                             block, adjust),
                   ret |-> ptr]

\* align is a power of two, an integer
memalign_pool(S, align, size, ubs) ==
    LET adjust == adjust_request_size(size, SzOf(ALIGN_SIZE))
        gap_minimum == SIZEOF_BLOCK_HEADER
        size_with_gap ==
            adjust_request_size(
                SzAdd(SzAdd(adjust, SzOf(align)), SzOf(gap_minimum)),
                SzOf(align))
        aligned_size == IF adjust /= SZ_ZERO /\ align > ALIGN_SIZE
                        THEN size_with_gap ELSE adjust
        Located(T, block) ==
            LET ptr == to_void_ptr(block)
                aligned0 == align_ptr(ptr, align)
                gap0 == aligned0 - ptr
                gap_remain == gap_minimum - gap0
                offset == IF gap_remain > align THEN gap_remain ELSE align
                aligned == IF gap0 /= 0 /\ gap0 < gap_minimum
                           THEN align_ptr(aligned0 + offset, align)
                           ELSE aligned0
                gap == aligned - ptr
            IN  IF block = NULLPTR THEN [S |-> T, ret |-> NULLPTR]
                ELSE IF gap /= 0
                THEN With(trim_free_leading(T, block, gap),
                          LAMBDA U, trimmed : prepare_used(U, trimmed, adjust))
                ELSE prepare_used(T, block, adjust)
    IN  With(locate_free(S, aligned_size, ubs), Located)

(***************************************************************************)
(* Construction (pool.cpp: initialize, create_memory_pool).                *)
(***************************************************************************)
\* the number of words after the region that exist as plain memory (the
\* upstream allocator's own bytes and its next allocation)
TailWords == 4

\* the addresses of the words of mem for a region of size bytes at base
Window(base, size) ==
    (IF base = NULLPTR THEN {}
     ELSE {base + PTR_SIZE * k :
            k \in 0..(((size + PTR_SIZE - 1) \div PTR_SIZE) + TailWords - 1)})
    \cup {BLOCK_NULL + OFF_PREV_PHYS, BLOCK_NULL + OFF_SIZE,
          BLOCK_NULL + OFF_NEXT_FREE, BLOCK_NULL + OFF_PREV_FREE}

\* pool_bytes < BLOCK_SIZE_MIN || pool_bytes > BLOCK_SIZE_MAX
SizeRefused(pool_bytes) ==
    \/ WLt(pool_bytes, SzOf(BLOCK_SIZE_MIN))
    \/ WLt(BLOCK_SIZE_MAX, pool_bytes)

create_memory_pool(S, mem_, bytes) ==
    LET pool_bytes == align_down(bytes, SzOf(ALIGN_SIZE))
        block == offset_to_block(mem_, BLOCK_HEADER_OVERHEAD)
        \* next = block->link_next(); next->set_size(0); next->set_used();
        \* next->set_prev_free()
        Sentinel(T, next) ==
            set_prev_free(set_used(set_size(link_next(T, block), next, 0),
                                   next),
                          next)
        Linked(T) == Sentinel(T, get_next(T, block))
    IN  IF mem_ % ALIGN_SIZE /= 0 THEN S
        ELSE IF SizeRefused(pool_bytes) THEN S
        ELSE Linked(block_insert(
                        set_prev_used(
                            set_free(set_size(S, block, SzVal(pool_bytes)),
                                     block),
                            block),
                        block))

\* the pool after tlsf_pool::initialize(size), when malloc_func(size) gave
\* the address base and the bytes there hold fill
initialize(base, size, fill) ==
    LET mem0 == [a \in Window(base, size) |->
                   IF a \in {BLOCK_NULL + OFF_NEXT_FREE,
                             BLOCK_NULL + OFF_PREV_FREE} THEN BLOCK_NULL
                   ELSE IF a \in {BLOCK_NULL + OFF_PREV_PHYS,
                                  BLOCK_NULL + OFF_SIZE} THEN 0
                   ELSE fill]
        S0 == [mem |-> mem0,
               fl_bitmap |-> {},
               sl_bitmap |-> [i \in FlRange |-> {}],
               blocks |-> [i \in FlRange |-> [j \in SlRange |-> BLOCK_NULL]],
               memory_pool |-> base,
               pool_size |-> size,
               ub |-> FALSE]
    IN  create_memory_pool(S0, base + BLOCK_HEADER_OVERHEAD,
                           SzSub(SzOf(size), SzOf(BLOCK_HEADER_OVERHEAD)))

(***************************************************************************)
(* The state machine: one pool and a client that calls its public          *)
(* methods.                                                                *)
(***************************************************************************)
VARIABLES mem, fl_bitmap, sl_bitmap, blocks, memory_pool, pool_size, ub,
          live, last, calls,
          \* tlsf_resource: whether memory_pool (the optional) holds a pool,
          \* the resource allocate and deallocate fall back on, the resource
          \* the pool's region came from, the calls the last call made to
          \* the upstream, the pointers the upstream has given out, what the
          \* last call threw, and the arguments of the last call that last
          \* has no field for
          has_pool, upstream, pool_upstream, up_log, up_live, thrown, arg,
          \* the regions the providers gave and took back, in order
          region_log,
          \* synchronized_tlsf_resource: the thread that holds the mutex (0
          \* for none) and where each thread is in its call
          mutex, pc

poolvars == <<mem, fl_bitmap, sl_bitmap, blocks, memory_pool, pool_size, ub>>
resvars == <<has_pool, upstream, pool_upstream, up_log, up_live, thrown, arg,
             region_log>>
syncvars == <<mutex, pc>>
vars == <<mem, fl_bitmap, sl_bitmap, blocks, memory_pool, pool_size, ub,
          live, last, calls, resvars, syncvars>>

\* the address malloc_func returns is 16 * PoolBaseUnits
PoolBaseUnits == 65
PoolBase == 16 * PoolBaseUnits
\* the size the pool is constructed with
PoolBytes == 296
\* what the bytes of the fresh region may hold
UninitValues == {0, 7}
\* the client holds at most MaxLive allocations at a time
MaxLive == 2
\* the client makes at most MaxCalls calls
MaxCalls == 4

\* request sizes: zero, unaligned, aligned, too large for the pool, and
\* the sizes around 2^32 and 2^64
ReqSizes == {SzOf(0), SzOf(25), SzOf(120), SzOf(121),
             BLOCK_SIZE_MAX, SzSub(SZ_MAX, SzOf(ALIGN_SIZE - 1)), SZ_MAX}
Aligns == {8, 32}

Pool == [mem |-> mem, fl_bitmap |-> fl_bitmap, sl_bitmap |-> sl_bitmap,
         blocks |-> blocks, memory_pool |-> memory_pool,
         pool_size |-> pool_size, ub |-> ub]

\* the builds to consider for a request: the undefined shift of
\* mapping_search is reached from 2^37 on
ShiftChoices(size) ==
    IF tlsf_fls_sizet(size) - SL_INDEX_COUNT_LOG2 >= UINT_BITS
    THEN ShiftUB ELSE {"x86"}

\* pointers the client may hand to free that no call of this pool gave:
\* the upstream allocation that starts right after the region (its block
\* header would sit at memory_pool + pool_size), one further on, one
\* before the region, and one below BLOCK_START_OFFSET
ForeignPtrs ==
    {memory_pool + pool_size + BLOCK_START_OFFSET,
     memory_pool + pool_size + BLOCK_START_OFFSET + PTR_SIZE,
     memory_pool - PTR_SIZE, PTR_SIZE}

NoCall == [op |-> "init", size |-> SZ_ZERO, align |-> 0, ptr |-> NULLPTR,
           ret |-> NULLPTR, ok |-> FALSE]

\* the std::pmr resources of the model: null_memory_resource, whose allocate
\* throws std::bad_alloc, and new_delete_resource
Resources == {"null", "heap"}
NoArg == [ctor |-> "pool", res |-> "heap", up |-> "none"]
\* the threads that call one synchronized_tlsf_resource
Threads == {1, 2}
\* no thread is in a call and the mutex is free
NoThreads == mutex = 0 /\ pc = [t \in Threads |-> "idle"]
\* a provider's allocate that gave size bytes at ptr, and its deallocate
Obtained(res, ptr, size) ==
    [op |-> "allocate", res |-> res, ptr |-> ptr, size |-> size]
Returned(res, ptr, size) ==
    [op |-> "deallocate", res |-> res, ptr |-> ptr, size |-> size]
\* a pool used through its own interface, without a tlsf_resource calling
PoolOnly ==
    /\ NoThreads
    /\ region_log = <<Obtained("heap", memory_pool, pool_size)>>
    /\ has_pool = TRUE
    /\ upstream = "null"
    /\ pool_upstream = "heap"
    /\ up_log = <<>>
    /\ up_live = {}
    /\ thrown = "none"
    /\ arg = NoArg

Init ==
    \E fill \in UninitValues :
        LET Start(S) ==
                /\ mem = S.mem
                /\ fl_bitmap = S.fl_bitmap
                /\ sl_bitmap = S.sl_bitmap
                /\ blocks = S.blocks
                /\ memory_pool = S.memory_pool
                /\ pool_size = S.pool_size
                /\ ub = S.ub
                /\ live = {}
                /\ last = NoCall
                /\ calls = 0
                /\ PoolOnly
        IN  Start(initialize(PoolBase, PoolBytes, fill))

\* the pool after a call that left S
CommitPool(S) ==
    /\ mem' = S.mem
    /\ fl_bitmap' = S.fl_bitmap
    /\ sl_bitmap' = S.sl_bitmap
    /\ blocks' = S.blocks
    /\ ub' = S.ub
    /\ UNCHANGED <<memory_pool, pool_size>>
    /\ calls' = calls + 1

\* the same for a call made on the pool itself
Commit(S) == CommitPool(S) /\ UNCHANGED <<resvars, syncvars>>

\* the client's pointers after a call that returned ret
Got(ret) == live \cup ({ret} \ {NULLPTR})

Malloc(n) ==
    /\ ~ub /\ calls < MaxCalls
    /\ Cardinality(live) < MaxLive
    /\ \E ubs \in ShiftChoices(n) :
         LET Done(R) ==
                 /\ Commit(R.S)
                 /\ live' = Got(R.ret)
                 /\ last' = [NoCall EXCEPT !.op = "malloc", !.size = n,
                                           !.ret = R.ret]
         IN  Done(malloc_pool(Pool, n, ubs))

Memalign(a, n) ==
    /\ ~ub /\ calls < MaxCalls
    /\ Cardinality(live) < MaxLive
    /\ \E ubs \in ShiftChoices(n) :
         LET Done(R) ==
                 /\ Commit(R.S)
                 /\ live' = Got(R.ret)
                 /\ last' = [NoCall EXCEPT !.op = "memalign", !.size = n,
                                           !.align = a, !.ret = R.ret]
         IN  Done(memalign_pool(Pool, a, n, ubs))

Free(p) ==
    /\ ~ub /\ calls < MaxCalls
    /\ LET Done(R) ==
               /\ Commit(R.S)
               /\ live' = live \ {p}
               /\ last' = [NoCall EXCEPT !.op = "free", !.ptr = p,
                                         !.ok = R.ret]
       IN  Done(free_pool(Pool, p))

\* p stays the client's when the call failed with n > 0
Realloc(p, n) ==
    /\ ~ub /\ calls < MaxCalls
    /\ p = NULLPTR => Cardinality(live) < MaxLive
    /\ \E ubs \in ShiftChoices(n) :
         LET Done(R) ==
                 /\ Commit(R.S)
                 /\ live' = (IF R.ret = NULLPTR /\ n /= SZ_ZERO
                             THEN live ELSE live \ {p})
                                \cup ({R.ret} \ {NULLPTR})
                 /\ last' = [NoCall EXCEPT !.op = "realloc", !.ptr = p,
                                           !.size = n, !.ret = R.ret]
         IN  Done(realloc_pool(Pool, p, n, ubs))

Next ==
    \/ \E n \in ReqSizes : Malloc(n)
    \/ \E a \in Aligns, n \in ReqSizes : Memalign(a, n)
    \/ \E p \in live \cup {NULLPTR} \cup ForeignPtrs : Free(p)
    \/ \E p \in live \cup {NULLPTR}, n \in ReqSizes : Realloc(p, n)

Spec == Init /\ [][Next]_vars

\* A client that also hands realloc pointers that no call of this pool gave.
ForeignSizes == {SzOf(25), SzOf(120)}
NextForeign ==
    \/ \E n \in ForeignSizes : Malloc(n)
    \/ \E p \in live : Free(p)
    \/ \E p \in ForeignPtrs, n \in ForeignSizes : Realloc(p, n)

SpecForeign == Init /\ [][NextForeign]_vars

\* Construction with the arguments left open: what malloc_func(size) gave
\* (null, an aligned address, an address that is not a multiple of
\* ALIGN_SIZE) and the size asked for (0, sizes around the smallest pool,
\* the size of Init).
CtorBases == {NULLPTR, PoolBase, PoolBase + (ALIGN_SIZE \div 2)}
CtorSizes == {0, BLOCK_SIZE_MIN, SIZEOF_BLOCK_HEADER, PoolBytes}

InitFrom(S) ==
    /\ mem = S.mem
    /\ fl_bitmap = S.fl_bitmap
    /\ sl_bitmap = S.sl_bitmap
    /\ blocks = S.blocks
    /\ memory_pool = S.memory_pool
    /\ pool_size = S.pool_size
    /\ ub = S.ub
    /\ live = {}
    /\ last = NoCall
    /\ calls = 0
    /\ PoolOnly

InitCtor ==
    \E base \in CtorBases, size \in CtorSizes, fill \in UninitValues :
        InitFrom(initialize(base, size, fill))

SpecCtor == InitCtor /\ [][Next]_vars

(***************************************************************************)
(* tlsf_resource (tlsf_resource.cpp, tlsf_resource.hpp): the memory         *)
(* resource over one pool.  A build with RTTI.                             *)
(***************************************************************************)
\* the pointers new_delete_resource can give: the allocation that starts
\* right after the pool's region, and one far from it
UpPtrs ==
    {memory_pool + pool_size + BLOCK_START_OFFSET,
     memory_pool + pool_size + BLOCK_START_OFFSET + SMALL_BLOCK_SIZE}
\* what upstream->allocate can return now; it throws std::bad_alloc when
\* this is empty
UpstreamGives == IF upstream = "heap" THEN UpPtrs \ up_live ELSE {}

\* the state of the variables of the pool while the optional is empty
NoPool == initialize(NULLPTR, 0, 0)
Install(S) ==
    /\ mem' = S.mem
    /\ fl_bitmap' = S.fl_bitmap
    /\ sl_bitmap' = S.sl_bitmap
    /\ blocks' = S.blocks
    /\ memory_pool' = S.memory_pool
    /\ pool_size' = S.pool_size
    /\ ub' = S.ub
    /\ calls' = calls + 1

\* tlsf_pool::create(size, res) where the region would be at base and hold
\* fill: the pool, or no pool when res gives no region, the region is
\* misaligned or the usable size is out of range
create(base, size, res, fill) ==
    LET usable == align_down(SzSub(SzOf(size),
                                   SzOf(BLOCK_HEADER_OVERHEAD
                                        + BLOCK_HEADER_OVERHEAD)),
                             SzOf(ALIGN_SIZE))
    IN  IF /\ res = "heap"
           /\ base % ALIGN_SIZE = 0
           /\ WLe(SzOf(BLOCK_SIZE_MIN), usable)
           /\ WLe(usable, BLOCK_SIZE_MAX)
        THEN [ok |-> TRUE, S |-> initialize(base, size, fill),
              log |-> <<Obtained(res, base, size)>>]
        ELSE [ok |-> FALSE, S |-> NoPool,
              log |-> IF res = "heap"
                      THEN <<Obtained(res, base, size),
                             Returned(res, base, size)>>
                      ELSE <<>>]

\* a ~tlsf_pool that keeps the region
pool_destructor_keeps(S, res, log) == log
\* ~tlsf_pool: the region goes back to where it came from unless
\* memory_pool is null; the log of the providers after it
pool_destructor(S, res, log) ==
    IF S.memory_pool /= NULLPTR
    THEN Append(log, Returned(res, S.memory_pool, S.pool_size))
    ELSE log
\* the optional destroyed or reset: ~tlsf_pool runs when it holds a pool
reset_log ==
    IF has_pool THEN pool_destructor(Pool, pool_upstream, region_log)
    ELSE region_log
\* the resource exists and may be called
Callable == ~ub /\ calls < MaxCalls /\ last.op /= "destroy"

\* the pool's part of a do_allocate that never calls memalign_pool
pool_allocate_malloc(S, bytes, align, ubs) == malloc_pool(S, bytes, ubs)
\* the pool's part of do_allocate: malloc_pool or memalign_pool
pool_allocate(S, bytes, align, ubs) ==
    IF align <= ALIGN_SIZE THEN malloc_pool(S, bytes, ubs)
    ELSE memalign_pool(S, align, bytes, ubs)

\* a call through the optional while it is empty: undefined behaviour
UseWithoutPool(op) ==
    /\ ~has_pool
    /\ ub' = TRUE
    /\ calls' = calls + 1
    /\ last' = [NoCall EXCEPT !.op = op]
    /\ UNCHANGED <<mem, fl_bitmap, sl_bitmap, blocks, memory_pool, pool_size,
                   live, resvars>>

do_allocate(bytes, align) ==
    /\ Callable
    /\ Cardinality(live) < MaxLive
    /\ \/ UseWithoutPool("allocate")
       \/ /\ has_pool
          /\ UNCHANGED <<has_pool, upstream, pool_upstream, region_log>>
          /\ arg' = NoArg
          /\ \E ubs \in ShiftChoices(bytes) :
               LET Called(p) == [NoCall EXCEPT !.op = "allocate",
                                     !.size = bytes, !.align = align,
                                     !.ret = p]
                   Done(R) ==
                     /\ CommitPool(R.S)
                     /\ IF R.ret = NULLPTR /\ bytes /= SZ_ZERO
                        THEN /\ up_log' = <<[op |-> "allocate",
                                             bytes |-> bytes,
                                             align |-> align,
                                             ptr |-> NULLPTR]>>
                             /\ live' = live
                             /\ \/ /\ UpstreamGives = {}
                                   /\ thrown' = "bad_alloc"
                                   /\ up_live' = up_live
                                   /\ last' = Called(NULLPTR)
                                \/ \E q \in UpstreamGives :
                                      /\ thrown' = "none"
                                      /\ up_live' = up_live \cup {q}
                                      /\ last' = Called(q)
                        ELSE /\ up_log' = <<>>
                             /\ thrown' = "none"
                             /\ up_live' = up_live
                             /\ live' = Got(R.ret)
                             /\ last' = Called(R.ret)
               IN  Done(pool_allocate(Pool, bytes, align, ubs))

do_deallocate(p, bytes, align) ==
    /\ Callable
    /\ \/ UseWithoutPool("deallocate")
       \/ /\ has_pool
          /\ UNCHANGED <<has_pool, upstream, pool_upstream, region_log>>
          /\ arg' = NoArg
          /\ thrown' = "none"
          /\ LET Done(R) ==
                   /\ CommitPool(R.S)
                   /\ live' = live \ {p}
                   /\ last' = [NoCall EXCEPT !.op = "deallocate",
                                   !.ptr = p, !.size = bytes,
                                   !.align = align, !.ok = R.ret]
                   /\ IF R.ret
                      THEN /\ up_log' = <<>>
                           /\ up_live' = up_live
                      ELSE /\ up_log' = <<[op |-> "deallocate",
                                           bytes |-> bytes, align |-> align,
                                           ptr |-> p]>>
                           /\ up_live' = up_live \ {p}
             IN  Done(free_pool(Pool, p))

\* memory_pool.reset(): the pool is destroyed and its region given back
Reset(op) ==
    /\ Callable
    /\ Install(NoPool)
    /\ has_pool' = FALSE
    /\ region_log' = reset_log
    /\ live' = {}
    /\ up_log' = <<>>
    /\ thrown' = "none"
    /\ arg' = NoArg
    /\ last' = [NoCall EXCEPT !.op = op]
    /\ UNCHANGED <<upstream, pool_upstream, up_live>>
release == Reset("release")
\* ~tlsf_resource: the optional is destroyed with the resource, and the
\* resource takes no call after it
destroy == Reset("destroy")

\* the call of create_memory_pool and what it leaves alone in every case
CreateCalled(options, replace) ==
    /\ Callable
    /\ arg' = [ctor |-> IF replace THEN "replace" ELSE "create",
               res |-> options.res, up |-> "none"]
    /\ last' = [NoCall EXCEPT !.op = "create_memory_pool",
                    !.size = SzOf(options.size)]
    /\ up_log' = <<>>
    /\ UNCHANGED <<upstream, up_live>>
\* release() and initialize_memory_pool(options.size,
\* options.upstream_resource): the old pool goes, the new one is the result
\* of tlsf_pool::create, std::runtime_error when there is none
ReplacePool(options) ==
    \E fill \in UninitValues :
       LET Made(C) ==
             /\ Install(C.S)
             /\ has_pool' = C.ok
             /\ live' = {}
             /\ region_log' = reset_log \o C.log
             /\ thrown' = IF C.ok THEN "none" ELSE "runtime_error"
             /\ pool_upstream' = IF C.ok THEN options.res
                                 ELSE pool_upstream
       IN  Made(create(PoolBase, options.size, options.res, fill))

\* a create_memory_pool that replaces the pool whatever replace is
resource_create_memory_pool_always(options, replace) ==
    CreateCalled(options, replace) /\ ReplacePool(options)
\* tlsf_resource::create_memory_pool(options, replace)
resource_create_memory_pool(options, replace) ==
    /\ CreateCalled(options, replace)
    /\ IF ~replace /\ has_pool
       THEN /\ thrown' = "runtime_error"
            /\ calls' = calls + 1
            /\ UNCHANGED <<poolvars, live, has_pool, pool_upstream,
                           region_log>>
       ELSE ReplacePool(options)

\* the resources is_equal can be given: this one, a resource of another
\* class, another tlsf_resource without a pool, another one with its pool
OtherResources == {"self", "foreign", "empty", "pooled"}
\* do_is_equal(const std::pmr::memory_resource&): the dynamic_cast, the
\* comparison of the two optionals and tlsf_pool::operator==
is_equal(other) ==
    IF other = "foreign" THEN FALSE
    ELSE LET other_has == IF other = "self" THEN has_pool
                          ELSE other = "pooled"
             other_pool == IF other = "self" THEN memory_pool
                           ELSE memory_pool + pool_size + SMALL_BLOCK_SIZE
         IN  IF has_pool /\ other_has
             THEN memory_pool = other_pool /\ memory_pool /= NULLPTR
             ELSE has_pool = other_has

do_is_equal(other) ==
    /\ Callable
    /\ calls' = calls + 1
    /\ last' = [NoCall EXCEPT !.op = "is_equal", !.ok = is_equal(other)]
    /\ arg' = [ctor |-> "is_equal", res |-> other, up |-> "none"]
    /\ up_log' = <<>>
    /\ thrown' = "none"
    /\ UNCHANGED <<poolvars, live, has_pool, upstream, pool_upstream,
                   up_live, region_log>>

\* the constructors: tlsf_resource(size, upstream) and
\* tlsf_resource(options, upstream), upstream given or left to its default
Constructors ==
    {[ctor |-> "size", res |-> "heap", up |-> "none"],
     [ctor |-> "size", res |-> "heap", up |-> "heap"],
     [ctor |-> "options", res |-> "heap", up |-> "none"]}

InitRes ==
    \E c \in Constructors, fill \in UninitValues :
        LET Start(S) ==
                /\ mem = S.mem
                /\ fl_bitmap = S.fl_bitmap
                /\ sl_bitmap = S.sl_bitmap
                /\ blocks = S.blocks
                /\ memory_pool = S.memory_pool
                /\ pool_size = S.pool_size
                /\ ub = S.ub
        IN  /\ Start(initialize(PoolBase, PoolBytes, fill))
            /\ live = {}
            /\ last = NoCall
            /\ calls = 0
            /\ has_pool = TRUE
            /\ upstream = (IF c.up = "none" THEN "null" ELSE c.up)
            /\ pool_upstream = c.res
            /\ up_log = <<>>
            /\ up_live = {}
            /\ thrown = "none"
            /\ arg = c
            /\ region_log = <<Obtained(c.res, PoolBase, PoolBytes)>>
            /\ NoThreads

PoolOptions == {[size |-> BLOCK_SIZE_MIN, res |-> "heap"],
                [size |-> PoolBytes, res |-> "heap"],
                [size |-> PoolBytes, res |-> "null"]}
DeallocSizes == {SzOf(BLOCK_SIZE_MIN + 1)}

NextRes ==
    \/ \E n \in ReqSizes, a \in Aligns :
          do_allocate(n, a) /\ UNCHANGED syncvars
    \/ \E p \in live \cup up_live, n \in DeallocSizes, a \in Aligns :
          do_deallocate(p, n, a) /\ UNCHANGED syncvars
    \/ release /\ UNCHANGED syncvars
    \/ destroy /\ UNCHANGED syncvars
    \/ \E o \in PoolOptions, r \in BOOLEAN :
          resource_create_memory_pool(o, r) /\ UNCHANGED syncvars
    \/ \E b \in OtherResources : do_is_equal(b) /\ UNCHANGED syncvars

SpecRes == InitRes /\ [][NextRes]_vars

(***************************************************************************)
(* synchronized_tlsf_resource: a tlsf_resource whose do_allocate and       *)
(* do_deallocate lock a std::mutex around the call of the base class; the  *)
(* other methods are the inherited ones.  Each thread is idle, between     *)
(* lock() and the end of the call of the base class ("allocate",           *)
(* "deallocate"), or before unlock() ("unlock").                           *)
(***************************************************************************)
\* the threads that are in the base class's do_allocate or do_deallocate
InCall == {t \in Threads : pc[t] \in {"allocate", "deallocate"}}
\* an unlocked method that writes the optional while a thread is in a
\* call on the pool: a data race
Race(op) ==
    /\ ub' = TRUE
    /\ calls' = calls + 1
    /\ last' = [NoCall EXCEPT !.op = op]
    /\ UNCHANGED <<mem, fl_bitmap, sl_bitmap, blocks, memory_pool, pool_size,
                   live, resvars>>

\* a lock() that does not wait for the mutex
sync_lock_free(t, op) ==
    /\ Callable
    /\ pc[t] = "idle"
    /\ mutex' = t
    /\ pc' = [pc EXCEPT ![t] = op]
    /\ UNCHANGED <<poolvars, live, last, calls, resvars>>
\* this->mutex.lock() at the start of do_allocate and do_deallocate: the
\* thread waits while another holds the mutex; locking a std::mutex the
\* thread holds already is undefined
sync_lock(t, op) ==
    /\ Callable
    /\ pc[t] = "idle"
    /\ mutex \in {0, t}
    /\ mutex' = t
    /\ pc' = [pc EXCEPT ![t] = op]
    /\ ub' = (mutex = t)
    /\ UNCHANGED <<mem, fl_bitmap, sl_bitmap, blocks, memory_pool, pool_size,
                   live, last, calls, resvars>>

\* the call of the base class returned: unlock() is next; it threw: the
\* exception leaves the function and unlock() is not reached
AfterCall(t) ==
    /\ mutex' = mutex
    /\ pc' = [pc EXCEPT ![t] = IF thrown' = "none" THEN "unlock"
                                ELSE "idle"]

sync_allocate(t, bytes, align) ==
    pc[t] = "allocate" /\ do_allocate(bytes, align) /\ AfterCall(t)

sync_deallocate(t, p, bytes, align) ==
    pc[t] = "deallocate" /\ do_deallocate(p, bytes, align) /\ AfterCall(t)

sync_unlock(t) ==
    /\ ~ub
    /\ pc[t] = "unlock"
    /\ mutex' = 0
    /\ pc' = [pc EXCEPT ![t] = "idle"]
    /\ UNCHANGED <<poolvars, live, last, calls, resvars>>

\* the inherited release() and create_memory_pool(): no lock is taken
sync_release(t) ==
    /\ pc[t] = "idle"
    /\ Callable
    /\ IF InCall = {} THEN release ELSE Race("release")
    /\ UNCHANGED syncvars

sync_create_memory_pool(t, options, replace) ==
    /\ pc[t] = "idle"
    /\ Callable
    /\ IF InCall = {} \/ (~replace /\ has_pool)
       THEN resource_create_memory_pool(options, replace)
       ELSE Race("create_memory_pool")
    /\ UNCHANGED syncvars

\* the requests of the threads: one the pool serves and one it cannot
SyncSizes == {SzOf(25), BLOCK_SIZE_MAX}
SyncOptions == {[size |-> PoolBytes, res |-> "heap"]}

NextSync ==
    \/ \E t \in Threads, op \in {"allocate", "deallocate"} : sync_lock(t, op)
    \/ \E t \in Threads, n \in SyncSizes : sync_allocate(t, n, ALIGN_SIZE)
    \/ \E t \in Threads, p \in live \cup up_live, n \in DeallocSizes :
          sync_deallocate(t, p, n, ALIGN_SIZE)
    \/ \E t \in Threads : sync_unlock(t)
    \/ \E t \in Threads : sync_release(t)
    \/ \E t \in Threads, o \in SyncOptions, r \in BOOLEAN :
          sync_create_memory_pool(t, o, r)

SpecSync == InitRes /\ [][NextSync]_vars

(***************************************************************************)
(* The functions of block.cpp on their own: Init draws the arguments, and  *)
(* one action for each group of functions applies them and leaves the      *)
(* results in arg.out.                                                     *)
(***************************************************************************)
\* sizes from 1 to FnMax are all tried
FnMax == 272
\* the exponents of the larger sizes tried
FnExps == {FL_INDEX_SHIFT, FL_INDEX_SHIFT + 1, FL_INDEX_SHIFT + 2,
           LIMB_BITS, FL_INDEX_MAX - 3}
\* sizes around the start and the end of the second-level classes of 2^k
AroundClasses ==
    {2 ^ k + d * (2 ^ (k - SL_INDEX_COUNT_LOG2)) + e :
        k \in FnExps, d \in {0, 1, SL_INDEX_COUNT - 1, SL_INDEX_COUNT},
        e \in {-ALIGN_SIZE, -1, 0, 1, ALIGN_SIZE}}
\* the request sizes: all small ones, the class borders, and the sizes of
\* the test UtilityTests.bitmapMapping
FnSizes ==
    {SzOf(n) : n \in (1..FnMax) \cup {1000, 1500} \cup AroundClasses}
       \cup {SzSub(BLOCK_SIZE_MAX, SzOf(e)) :
                e \in {1, ALIGN_SIZE, 2 ^ (FL_INDEX_MAX - FL_INDEX_SHIFT)}}
\* x is a multiple of ALIGN_SIZE
Aligned(x) == SzAnd(x, SzOf(ALIGN_SIZE - 1)) = SZ_ZERO
\* the block sizes: the multiples of ALIGN_SIZE among them, from
\* BLOCK_SIZE_MIN on
FnBlockSizes ==
    {x \in FnSizes : Aligned(x) /\ WLe(SzOf(BLOCK_SIZE_MIN), x)}

FnArgs(fn, xs, ys) ==
    {[fn |-> fn, x |-> x, y |-> y, out |-> <<>>] : x \in xs, y \in ys}
\* the arguments of mapping_search and mapping_insert
MappingArgs ==
    FnArgs("mapping", FnSizes, FnBlockSizes)

\* the sizes given to create_memory_pool: the request sizes, and the ones
\* around BLOCK_SIZE_MAX
FnPoolSizes ==
    FnSizes \cup {BLOCK_SIZE_MAX}
       \cup {SzAdd(BLOCK_SIZE_MAX, SzOf(e)) : e \in {1, ALIGN_SIZE}}
InsertArgs ==
    FnArgs("insert", FnPoolSizes, {SzOf(ALIGN_SIZE)})

\* the alignments: the powers of two up to 2^AlignExpMax, and 2^63
AlignExpMax == 5
FnAligns ==
    {SzOf(2 ^ k) : k \in 0..AlignExpMax} \cup {<<0, 0, 0, LIMB \div 2>>}
\* the values to align: the request sizes, 0, and the last ones before
\* SIZE_MAX
FnValues ==
    FnSizes \cup {SZ_ZERO}
       \cup {SzSub(SZ_MAX, SzOf(e)) :
                e \in {0, 1, ALIGN_SIZE - 2, ALIGN_SIZE - 1, ALIGN_SIZE}}
\* the arguments of align_up and align_down
AlignArgs ==
    FnArgs("align", FnValues, FnAligns)
\* the arguments of align_ptr: the addresses of the model
AlignPtrArgs ==
    FnArgs("align_ptr", {x \in FnValues : SzFits(x)},
           {a \in FnAligns : SzFits(a)})

\* the halves of the unsigned ints tried: no bit, every single bit, all
\* bits, all but the highest, and the 8 of the test
\* UtilityTests.bitsetArithmeticCorrect
FnHalves ==
    {0, ALIGN_SIZE, LIMB \div 2 - 1, LIMB - 1}
       \cup {2 ^ k : k \in 0..(LIMB_BITS - 1)}
FnWords == {<<lo, hi, 0, 0>> : lo \in FnHalves, hi \in FnHalves}
\* the size_t values tried: a highest limb with its lowest, its highest or
\* all of its bits set, over limbs that are all zero or all one
FnWide ==
    {[i \in 1..4 |-> IF i = p THEN top
                     ELSE IF i < p THEN below ELSE 0] :
        p \in 1..4, top \in {1, LIMB \div 2, LIMB - 1},
        below \in {0, LIMB - 1}}
\* the arguments of tlsf_ffs and tlsf_fls (x) and of tlsf_fls_sizet (y)
BitsArgs ==
    FnArgs("bits", FnWords, FnWide)

\* the free lists that may hold blocks: the first and the last list of the
\* first, the second and the last class, and two in between
FnLists ==
    <<<<0, 3>>, <<0, SL_INDEX_COUNT - 1>>, <<1, 0>>, <<1, SL_INDEX_COUNT - 1>>,
      <<5, 7>>, <<FL_INDEX_COUNT - 1, 0>>,
      <<FL_INDEX_COUNT - 1, SL_INDEX_COUNT - 1>>>>
\* a choice of lists, as the word with bit k - 1 set for the list FnLists[k]
FnChoices == {SzOf(n) : n \in 0..(2 ^ Len(FnLists) - 1)}
ListsOf(x) ==
    {FnLists[k] : k \in {n \in 1..Len(FnLists) :
                            (x[1] \div (2 ^ (n - 1))) % 2 = 1}}
\* the lists (i, j) a search may start at, as <<i, j, 0, 0>>
FnStarts ==
    {<<i, j, 0, 0>> :
        i \in {0, 1, 4, 5, FL_INDEX_COUNT - 2, FL_INDEX_COUNT - 1},
        j \in {0, 3, 4, 8, SL_INDEX_COUNT - 1}}
\* the block that heads the list (i, j) when it holds blocks
HeadOf(i, j) == PoolBase + PTR_SIZE * (SL_INDEX_COUNT * i + j)
\* the arguments of search_suitable_block: the lists that hold blocks (x)
\* and the list to start at (y)
SearchArgs ==
    FnArgs("search", FnChoices, FnStarts)
\* the index of a pool whose lists hold blocks: both bitmaps and the heads
IndexOf(lists) ==
    [NoPool EXCEPT
        !.fl_bitmap = {ij[1] : ij \in lists},
        !.sl_bitmap = [i \in FlRange |-> {ij[2] : ij \in {l \in lists : l[1] = i}}],
        !.blocks = [i \in FlRange |-> [j \in SlRange |->
                       IF <<i, j>> \in lists THEN HeadOf(i, j)
                       ELSE BLOCK_NULL]]]
\* the pool the functions are applied to
FnPool(a) == IF a.fn = "search" THEN IndexOf(ListsOf(a.x)) ELSE NoPool

InitFn ==
    /\ arg \in MappingArgs \cup AlignArgs \cup AlignPtrArgs \cup BitsArgs
                \cup SearchArgs \cup InsertArgs
    /\ mem = NoPool.mem
    /\ fl_bitmap = FnPool(arg).fl_bitmap
    /\ sl_bitmap = FnPool(arg).sl_bitmap
    /\ blocks = FnPool(arg).blocks
    /\ memory_pool = NoPool.memory_pool
    /\ pool_size = NoPool.pool_size
    /\ ub = FALSE
    /\ live = {}
    /\ last = NoCall
    /\ calls = 0
    /\ has_pool = FALSE
    /\ upstream = "null"
    /\ pool_upstream = "null"
    /\ up_log = <<>>
    /\ up_live = {}
    /\ thrown = "none"
    /\ region_log = <<>>
    /\ NoThreads

\* the function fn applied: its results are out
Applied(fn, out) ==
    /\ arg.fn = fn
    /\ arg.out = <<>>
    /\ arg' = [arg EXCEPT !.out = out]
    /\ UNCHANGED <<poolvars, live, last, calls, has_pool, upstream,
                   pool_upstream, up_log, up_live, thrown, region_log,
                   syncvars>>

\* mapping_search(x) and mapping_insert(y)
ApplyMapping ==
    Applied("mapping", <<mapping_search(arg.x, "x86"), mapping_insert(arg.y)>>)

\* create_memory_pool(mem, x) up to block_insert(block): whether the size
\* is accepted, and mapping_insert of the size of the first block
ApplyInsert ==
    Applied("insert", <<~SizeRefused(align_down(arg.x, arg.y)),
                        mapping_insert(align_down(arg.x, arg.y))>>)

\* align_down(x, y) and align_up(x, y)
ApplyAlign ==
    Applied("align", <<align_down(arg.x, arg.y), align_up(arg.x, arg.y)>>)

\* align_ptr(x, y), x an address
ApplyAlignPtr ==
    Applied("align_ptr", <<SzOf(align_ptr(SzVal(arg.x), SzVal(arg.y)))>>)

\* tlsf_ffs(x), tlsf_fls(x) and tlsf_fls_sizet(y)
ApplyBits ==
    Applied("bits", <<tlsf_ffs(UIntBits(arg.x[1], arg.x[2])),
                      tlsf_fls(UIntBits(arg.x[1], arg.x[2])),
                      tlsf_fls_sizet(arg.y)>>)

\* search_suitable_block(&fl, &sl) from the list y
ApplySearch ==
    Applied("search", <<search_suitable_block(Pool, arg.y[1], arg.y[2])>>)

NextFn ==
    \/ ApplyBits
    \/ ApplySearch
    \/ ApplyMapping
    \/ ApplyAlign
    \/ ApplyAlignPtr
    \/ ApplyInsert

SpecFn == InitFn /\ [][NextFn]_vars

(***************************************************************************)
(* Claims.                                                                 *)
(***************************************************************************)
\* the block of the pointer the last call returned
RetBlock == from_void_ptr(last.ret)
\* adjust_request_size of the last call's size
LastAdjust == adjust_request_size(last.size, SzOf(ALIGN_SIZE))

\* C1: when malloc(n) returns a non-null pointer p, the block B of p has
\* size(B) >= adjust_request_size(n, ALIGN_SIZE) >= n.
C1_MallocBlockFits ==
    (last.op = "malloc" /\ last.ret /= NULLPTR) =>
        /\ ~ub
        /\ WLe(LastAdjust, SzOf(get_size(Pool, RetBlock)))
        /\ WLe(last.size, LastAdjust)

(***************************************************************************)
(* The physical chain of the pool: the blocks from the first one, each     *)
(* followed by its get_next, up to the first block of size 0.              *)
(***************************************************************************)
\* initialize hands memory_pool + BLOCK_HEADER_OVERHEAD to
\* create_memory_pool, which places the first block BLOCK_HEADER_OVERHEAD on
FirstBlock == memory_pool + BLOCK_HEADER_OVERHEAD + BLOCK_HEADER_OVERHEAD

RECURSIVE ChainFrom(_, _, _)
ChainFrom(S, b, fuel) ==
    IF fuel = 0 \/ (b + OFF_SIZE) \notin DOMAIN S.mem THEN <<>>
    ELSE IF is_last(S, b) THEN <<b>>
    ELSE <<b>> \o ChainFrom(S, get_next(S, b), fuel - 1)

\* no more blocks than words
Chain == ChainFrom(Pool, FirstBlock, pool_size \div PTR_SIZE)
\* the chain ends in a block of size 0
ChainEnds == Chain /= <<>> /\ is_last(Pool, Chain[Len(Chain)])

NoAdjacentFree ==
    \A i \in 1..(Len(Chain) - 1) :
        ~(is_free(Pool, Chain[i]) /\ is_free(Pool, Chain[i + 1]))

InitialSize ==
    SzVal(align_down(SzSub(SzOf(pool_size), SzOf(BLOCK_HEADER_OVERHEAD)),
                     SzOf(ALIGN_SIZE)))
\* the heads of the free lists that are not block_null
ListHeads ==
    {ij \in FlRange \X SlRange : blocks[ij[1]][ij[2]] /= BLOCK_NULL}
\* one free block of the initial size before the sentinel, alone in its list,
\* one bit in fl_bitmap and one bit in one word of sl_bitmap
Drained ==
    /\ ChainEnds /\ Len(Chain) = 2
    /\ is_free(Pool, FirstBlock)
    /\ get_size(Pool, FirstBlock) = InitialSize
    /\ is_prev_free(Pool, Chain[2])
    /\ Rd(Pool, Chain[2] + OFF_PREV_PHYS) = FirstBlock
    /\ ListHeads = {<<ListOf(Pool, FirstBlock).fl, ListOf(Pool, FirstBlock).sl>>}
    /\ \A ij \in ListHeads : blocks[ij[1]][ij[2]] = FirstBlock
    /\ Rd(Pool, FirstBlock + OFF_NEXT_FREE) = BLOCK_NULL
    /\ Rd(Pool, FirstBlock + OFF_PREV_FREE) = BLOCK_NULL
    /\ Cardinality(fl_bitmap) = 1
    /\ Cardinality({i \in FlRange : sl_bitmap[i] /= {}}) = 1
    /\ \A i \in FlRange : Cardinality(sl_bitmap[i]) <= 1

RECURSIVE ListFrom(_, _, _)
ListFrom(S, b, fuel) ==
    IF fuel = 0 \/ b = BLOCK_NULL \/ (b + OFF_NEXT_FREE) \notin DOMAIN S.mem
    THEN {}
    ELSE {b} \cup ListFrom(S, Rd(S, b + OFF_NEXT_FREE), fuel - 1)
\* address and size word (size and both flags) of each block of the chain c
ChainWords(S, c) == [k \in 1..Len(c) |-> <<c[k], Rd(S, c[k] + OFF_SIZE)>>]
\* block boundaries, block flags, members of every free list, both bitmaps
Layout(S) ==
    [chain |-> ChainWords(S, ChainFrom(S, FirstBlock, pool_size \div PTR_SIZE)),
     lists |-> [i \in FlRange |-> [j \in SlRange |->
                   ListFrom(S, S.blocks[i][j], pool_size \div PTR_SIZE)]],
     fl_bitmap |-> S.fl_bitmap,
     sl_bitmap |-> S.sl_bitmap]
\* free(malloc(n)) from the present pool: the free succeeds and restores the
\* layout (TRUE when malloc(n) returns null)
RoundTrip(n, ubs) ==
    LET Freed(R) == /\ R.ret = TRUE
                    /\ ~R.S.ub
                    /\ Layout(R.S) = Layout(Pool)
        Allocated(R) == R.ret /= NULLPTR => Freed(free_pool(R.S, R.ret))
    IN  Allocated(malloc_pool(Pool, n, ubs))
\* malloc(n) from the present pool returns a pointer
MallocSucceeds(n, ubs) == malloc_pool(Pool, n, ubs).ret /= NULLPTR

\* C4: from every reachable pool state S and for every n for which malloc(n)
\* succeeds, p = malloc(n) followed by free(p) gives a state equal to S in
\* block boundaries, block flags, free-list membership and both bitmaps.
C4_FreeUndoesMalloc ==
    ~ub => \A n \in ReqSizes : \A ubs \in ShiftChoices(n) : RoundTrip(n, ubs)

\* a pool with an allocation outstanding and a free block behind it, where
\* malloc succeeds, splits a block and the free gives the layout back
C4_RoundTripDone ==
    /\ ~ub /\ live /= {} /\ Len(Chain) >= 3
    /\ \E n \in ReqSizes : \E ubs \in ShiftChoices(n) :
          /\ MallocSucceeds(n, ubs)
          /\ Layout(malloc_pool(Pool, n, ubs).S).chain /= Layout(Pool).chain
          /\ RoundTrip(n, ubs)

\* C5: every non-null pointer malloc(n) returns is a multiple of ALIGN_SIZE;
\* every non-null pointer memalign(align, n) returns, align a power of two, is
\* a multiple of align and the payload of a used block of size at least
\* adjust_request_size(n, ALIGN_SIZE).
C5_PointersAligned ==
    (~ub /\ last.ret /= NULLPTR) =>
        /\ last.op = "malloc" => last.ret % ALIGN_SIZE = 0
        /\ last.op = "memalign" =>
              /\ last.ret % last.align = 0
              /\ ~is_free(Pool, RetBlock)
              /\ WLe(LastAdjust, SzOf(get_size(Pool, RetBlock)))

\* memalign with an alignment above ALIGN_SIZE returned a pointer behind a
\* leading gap that it gave back to the pool
C5_AlignedBehindGap ==
    /\ ~ub /\ last.op = "memalign" /\ last.ret /= NULLPTR
    /\ last.align > ALIGN_SIZE
    /\ last.ret % last.align = 0
    /\ RetBlock /= FirstBlock
    /\ is_prev_free(Pool, RetBlock)

\* the call that ends the step was a malloc or memalign that returned null
NullReturned ==
    /\ last'.op \in {"malloc", "memalign"}
    /\ last'.ret = NULLPTR

\* C6: whenever malloc(n) or memalign(a, n) returns null, the pool state
\* (memory of the blocks, free lists, bitmaps) is the state before the call,
\* and the call has stayed within defined behaviour.
C6_NullLeavesPool ==
    [][NullReturned => (UNCHANGED poolvars /\ ~ub')]_vars

\* a request that no free block can satisfy has returned null from a pool
\* with allocations outstanding
C6_NullFromSplitPool ==
    /\ ~ub /\ last.op \in {"malloc", "memalign"} /\ last.ret = NULLPTR
    /\ last.size /= SZ_ZERO
    /\ WLt(last.size, BLOCK_SIZE_MAX)
    /\ live /= {} /\ Len(Chain) >= 3

\* n rounded up to ALIGN_SIZE is BLOCK_SIZE_MAX or more, the rounding taken
\* without wrap: n > BLOCK_SIZE_MAX - ALIGN_SIZE
Oversized(n) == WLt(SzSub(BLOCK_SIZE_MAX, SzOf(ALIGN_SIZE)), n)

\* C7: for every request size n whose rounding up to ALIGN_SIZE reaches
\* BLOCK_SIZE_MAX, the sizes within ALIGN_SIZE - 1 of the largest size_t
\* included, adjust_request_size(n, ALIGN_SIZE) is 0 and malloc(n) and
\* memalign(a, n) return null.
C7_OversizedRejected ==
    (last.op \in {"malloc", "memalign"} /\ Oversized(last.size)) =>
        /\ LastAdjust = SZ_ZERO
        /\ last.ret = NULLPTR

\* p is null or its block header is outside [memory_pool,
\* memory_pool + pool_size)
NotOurs(p) ==
    \/ p = NULLPTR
    \/ from_void_ptr(p) < memory_pool
    \/ from_void_ptr(p) >= memory_pool + pool_size

\* C8: free(p) returns false and leaves the pool state unchanged when p is
\* null or when the block header of p is outside [memory_pool, memory_pool +
\* pool_size), the address memory_pool + pool_size included; it returns true
\* only for a header inside that range.
C8_FreeRejectsForeign ==
    [][(last'.op = "free" /\ NotOurs(last'.ptr)) =>
           (~last'.ok /\ UNCHANGED poolvars)]_vars

\* the powers of two up to ALIGN_SIZE
SmallAligns == {2 ^ k : k \in 0..ALIGN_SIZE_LOG2}
\* memalign(a, s) and malloc(s) from the present pool return the same
\* pointer and leave the same pool
SameAsMalloc(a, s, ubs) ==
    memalign_pool(Pool, a, s, ubs) = malloc_pool(Pool, s, ubs)

\* C9: from every reachable pool state, for every alignment a <= ALIGN_SIZE
\* and every size s (multiple of ALIGN_SIZE or not), memalign(a, s) and
\* malloc(s) select the same block, return the same pointer and leave the
\* same pool state.
C9_SmallAlignIsMalloc ==
    ~ub => \A a \in SmallAligns : \A s \in ReqSizes :
               \A ubs \in ShiftChoices(s) : SameAsMalloc(a, s, ubs)

\* the first k bytes at p are the same in S and T (memory is little-endian
\* and its words are below 2^31, as for memcpy)
PayloadKept(S, T, p, k) ==
    /\ \A w \in 0..((k \div PTR_SIZE) - 1) :
          Rd(T, p + w * PTR_SIZE) = Rd(S, p + w * PTR_SIZE)
    /\ k % PTR_SIZE /= 0 =>
          LET a == p + (k \div PTR_SIZE) * PTR_SIZE
              m == 256 ^ (k % PTR_SIZE)
          IN  IF k % PTR_SIZE >= 4 THEN Rd(T, a) = Rd(S, a)
              ELSE Rd(T, a) % m = Rd(S, a) % m
\* realloc(p, n) can stay in place: the block is used and either the next
\* block is free and the two together reach the adjusted size, or the
\* adjusted size is at most the present size
CanStay(p, n) ==
    LET block == from_void_ptr(p)
        next == get_next(Pool, block)
        cursize == get_size(Pool, block)
        adjust == adjust_request_size(n, SzOf(ALIGN_SIZE))
    IN  /\ ~is_free(Pool, block)
        /\ \/ /\ is_free(Pool, next)
              /\ WLe(adjust, SzOf(cursize + get_size(Pool, next)
                                      + BLOCK_HEADER_OVERHEAD))
           \/ WLe(adjust, SzOf(cursize))
\* realloc(p, n) from the present pool returned p, left its block used and
\* large enough and kept the first min(old size, n) bytes
StayedInPlace(p, n, ubs) ==
    LET block == from_void_ptr(p)
        kept == SzVal(tlsf_min(SzOf(get_size(Pool, block)), n))
        Kept(R) ==
            /\ R.ret = p
            /\ ~R.S.ub
            /\ ~is_free(R.S, block)
            /\ WLe(adjust_request_size(n, SzOf(ALIGN_SIZE)),
                   SzOf(get_size(R.S, block)))
            /\ PayloadKept(Pool, R.S, p, kept)
    IN  Kept(realloc_pool(Pool, p, n, ubs))

\* C10: for a used block B with payload p, if the next physical block is
\* free and size(B) + size(next) + BLOCK_HEADER_OVERHEAD >= the adjusted
\* request, or the adjusted request is at most size(B), realloc(p, n) with
\* n > 0 returns p, B stays used with size(B) >= the adjusted request, and
\* the first min(old size, n) payload bytes are unchanged.
C10_ReallocInPlace ==
    ~ub => \A p \in live : \A n \in ReqSizes \ {SZ_ZERO} :
               \A ubs \in ShiftChoices(n) :
                   CanStay(p, n) => StayedInPlace(p, n, ubs)

\* the size of the block of the payload p in the present pool
SizeOf(p) == SzOf(get_size(Pool, from_void_ptr(p)))
\* realloc(p, size of p's block) from the present pool returns p and leaves
\* the pool as it is
SameSizeKeeps(p) ==
    realloc_pool(Pool, p, SizeOf(p), "x86") = [S |-> Pool, ret |-> p]

\* C11: for every live allocation p in any reachable state,
\* realloc(p, size(from_void_ptr(p))) returns p and leaves the pool state
\* unchanged.
C11_ReallocSameSize ==
    ~ub => \A p \in live : SameSizeKeeps(p)

\* the used blocks among the blocks of the chain c, the sentinel left out
UsedIn(S, c) ==
    {c[k] : k \in {i \in 1..Len(c) : ~is_free(S, c[i]) /\ ~is_last(S, c[i])}}
UsedBlocks(S) == UsedIn(S, ChainFrom(S, FirstBlock, pool_size \div PTR_SIZE))
\* realloc(p, n) has to move: the adjusted size is above the present size
\* and the next block is used or too small
MustMove(p, n) ==
    LET block == from_void_ptr(p)
        next == get_next(Pool, block)
        cursize == get_size(Pool, block)
        adjust == adjust_request_size(n, SzOf(ALIGN_SIZE))
    IN  /\ WLt(SzOf(cursize), adjust)
        /\ \/ ~is_free(Pool, next)
           \/ WLt(SzOf(cursize + get_size(Pool, next)
                           + BLOCK_HEADER_OVERHEAD), adjust)
\* what realloc(p, n) gave (R) against what malloc(n) gives from the same
\* pool (A): null and the same pool when malloc fails; else malloc's
\* pointer, p's block no longer used and one new used block in its place
MovedOrKept(p, R, A) ==
    IF A.ret = NULLPTR
    THEN /\ R.ret = NULLPTR
         /\ R.S = Pool
    ELSE /\ R.ret = A.ret
         /\ ~R.S.ub
         /\ UsedBlocks(R.S) = (UsedBlocks(Pool) \ {from_void_ptr(p)})
                                  \cup {from_void_ptr(A.ret)}
         /\ from_void_ptr(A.ret) \notin UsedBlocks(Pool)
MoveDone(p, n, ubs) ==
    MovedOrKept(p, realloc_pool(Pool, p, n, ubs), malloc_pool(Pool, n, ubs))

\* C12: when realloc(p, n) must move the block and the internal malloc(n)
\* fails, realloc returns null and the pool state, the original block with
\* its size and flags included, is unchanged; when the internal malloc
\* succeeds, the old block is freed and exactly one new used block exists
\* for the allocation.
C12_ReallocMove ==
    ~ub => \A p \in live : \A n \in ReqSizes \ {SZ_ZERO} :
               \A ubs \in ShiftChoices(n) :
                   MustMove(p, n) => MoveDone(p, n, ubs)

\* C13: for a live allocation p and an over-sized request n (n rounded up
\* to ALIGN_SIZE reaches BLOCK_SIZE_MAX), realloc(p, n) returns null and
\* leaves p's block and the rest of the pool untouched.
C13_OversizedReallocFails ==
    [][(last'.op = "realloc" /\ last'.ptr \in live /\ Oversized(last'.size))
           => (last'.ret = NULLPTR /\ UNCHANGED poolvars)]_vars

\* tlsf_pool::is_allocated
is_allocated == memory_pool /= NULLPTR
\* no free list has a block and no bit of the bitmaps is set
EmptyIndex ==
    /\ fl_bitmap = {}
    /\ \A i \in FlRange : sl_bitmap[i] = {}
    /\ \A i \in FlRange : \A j \in SlRange : blocks[i][j] = BLOCK_NULL
\* the region is aligned and align_down(N - 2 * BLOCK_HEADER_OVERHEAD,
\* ALIGN_SIZE) lies in [BLOCK_SIZE_MIN, BLOCK_SIZE_MAX]
UsableSize ==
    align_down(SzSub(SzOf(pool_size),
                     SzOf(BLOCK_HEADER_OVERHEAD + BLOCK_HEADER_OVERHEAD)),
               SzOf(ALIGN_SIZE))
Constructible ==
    /\ memory_pool % ALIGN_SIZE = 0
    /\ WLe(SzOf(BLOCK_SIZE_MIN), UsableSize)
    /\ WLe(UsableSize, BLOCK_SIZE_MAX)

\* C14: construction fails (no allocated pool is produced) whenever the
\* usable size align_down(N - 2 * BLOCK_HEADER_OVERHEAD, ALIGN_SIZE) is
\* outside [BLOCK_SIZE_MIN, BLOCK_SIZE_MAX] or the region is misaligned; it
\* never gives a pool that reports is_allocated() with an empty index.
C14_ConstructionFails ==
    last.op = "init" =>
        /\ ~Constructible => ~is_allocated
        /\ ~(is_allocated /\ EmptyIndex)

\* C15: when the provider of the region fails (malloc_func gives null),
\* construction writes no block header and no index entry through the
\* missing region and gives no allocated pool.
C15_UpstreamFailure ==
    (last.op = "init" /\ memory_pool = NULLPTR) => (~ub /\ EmptyIndex)

\* an allocate step that reached a pool with a request of more than 0 bytes
AllocateCalled == last'.op = "allocate" /\ has_pool /\ last'.size /= SZ_ZERO
\* the pool served the request: its pointer is returned, upstream not called
ServedByPool(R) ==
    /\ last'.ret = R.ret
    /\ Pool' = R.S
    /\ up_log' = <<>>
    /\ thrown' = "none"
\* the pool left as it was, upstream got one allocate with the arguments of
\* the call, and its pointer or its failure is what the caller gets
ForwardedUpstream ==
    /\ UNCHANGED poolvars
    /\ up_log' = <<[op |-> "allocate", bytes |-> last'.size,
                    align |-> last'.align, ptr |-> NULLPTR]>>
    /\ IF upstream = "null" THEN thrown' = "bad_alloc"
       ELSE \/ thrown' = "bad_alloc" /\ up_live' = up_live
            \/ /\ thrown' = "none"
               /\ last'.ret \in up_live' \ up_live
               /\ up_live' = up_live \cup {last'.ret}
AllocateAgrees(R) ==
    IF R.ret /= NULLPTR THEN ServedByPool(R) ELSE ForwardedUpstream

\* C16: allocate(bytes, align) with bytes > 0 calls malloc_pool when align
\* is at most ALIGN_SIZE and memalign_pool otherwise; when the pool returns
\* null it forwards one allocate(bytes, align) with the same arguments to
\* upstream and returns its result or lets its failure through (bad_alloc
\* from the null resource), and the pool is left unchanged.
C16_AllocateFallsBack ==
    [][AllocateCalled =>
         \E ubs \in ShiftChoices(last'.size) :
            IF last'.align <= ALIGN_SIZE
            THEN AllocateAgrees(malloc_pool(Pool, last'.size, ubs))
            ELSE AllocateAgrees(memalign_pool(Pool, last'.align,
                                              last'.size, ubs))]_vars
\* witness: a request the pool could not serve came back from upstream
C16_ServedUpstream ==
    /\ last.op = "allocate"
    /\ last.ret \in up_live
    /\ up_log /= <<>>
    /\ ~ub

\* a deallocate step that reached a pool
DeallocateCalled == last'.op = "deallocate" /\ has_pool
\* upstream got one deallocate with the arguments of the call
PassedUpstream ==
    up_log' = <<[op |-> "deallocate", bytes |-> last'.size,
                 align |-> last'.align, ptr |-> last'.ptr]>>

\* C17: deallocate(p, bytes, align) forwards to upstream exactly when
\* free_pool(p) reports that the pool does not own p; a pointer that came
\* from upstream is passed to upstream and is never marked free or put in
\* the lists of the pool, and a pointer of the pool is never passed to
\* upstream.
C17_DeallocateRoutes ==
    [][DeallocateCalled =>
         /\ PassedUpstream <=> ~free_pool(Pool, last'.ptr).ret
         /\ last'.ptr \in up_live => (PassedUpstream /\ UNCHANGED poolvars)
         /\ last'.ptr \in live => up_log' = <<>>]_vars

\* the resource was just constructed from a pool_options value alone
OptionsAlone == last.op = "init" /\ arg.ctor = "options" /\ arg.up = "none"

\* C18: a tlsf_resource constructed from a pool_options value alone uses
\* options.upstream_resource both to allocate the region of the pool and as
\* the upstream resource that gets the allocations the pool cannot serve.
C18_OptionsResourceIsUpstream ==
    OptionsAlone => (pool_upstream = arg.res /\ upstream = arg.res)

\* a create_memory_pool step, and one without replace on a resource that
\* holds a pool
CreateStep == last'.op = "create_memory_pool"
CreateRefused == CreateStep /\ arg'.ctor = "create" /\ has_pool
\* the pool, its region and the allocations taken from it are as before
PoolKept == UNCHANGED <<poolvars, live, has_pool, pool_upstream>>
\* the old pool is gone with its allocations and the new one is in place,
\* or none is when tlsf_pool::create gave none
PoolReplaced ==
    /\ live' = {}
    /\ \E fill \in UninitValues :
          /\ Pool' = create(PoolBase, SzVal(last'.size), arg'.res, fill).S
          /\ has_pool' = create(PoolBase, SzVal(last'.size), arg'.res,
                                fill).ok
    /\ has_pool' <=> thrown' = "none"

\* C19: create_memory_pool(options, replace = false) on a resource that
\* holds a pool throws std::runtime_error and leaves the pool, its region
\* and its outstanding allocations unchanged; only with replace = true, or
\* when there is no pool, is the existing pool released and a new one
\* installed.
C19_CreateKeepsPool ==
    [][CreateStep =>
         IF CreateRefused THEN thrown' = "runtime_error" /\ PoolKept
         ELSE PoolReplaced]_vars
\* witness: a create_memory_pool without replace was refused by a resource
\* whose pool has an allocation outstanding
C19_RefusedWithLive ==
    /\ last.op = "create_memory_pool"
    /\ arg.ctor = "create"
    /\ thrown = "runtime_error"
    /\ has_pool
    /\ live /= {}
    /\ ~ub

\* is_equal was just called with the resource named in arg.res
EqualCalled == last.op = "is_equal"
\* the other resource is another object: of another class, or a
\* tlsf_resource with no pool or with a pool of its own
AnotherObject == arg.res \in {"foreign", "empty", "pooled"}

\* C20: for two resources a and b in any state, holding a pool or none,
\* a.is_equal(b) is true if and only if b is a tlsf_resource over the same
\* pool instance as a: false for every other object, true for a itself
\* while it holds a pool.
C20_EqualIffSamePool ==
    EqualCalled =>
        /\ AnotherObject => ~last.ok
        /\ (arg.res = "self" /\ has_pool) => last.ok

\* the threads between lock() and unlock()
Locked == {t \in Threads : pc[t] /= "idle"}

\* C21: with the threads calling allocate and deallocate on one
\* synchronized_tlsf_resource, at most one thread at a time is inside a pool
\* operation or the upstream forward, and that thread holds the mutex from
\* before the call on the pool until after it.
C21_OneThreadInside ==
    ~ub => /\ Cardinality(Locked) <= 1
           /\ \A t \in Locked : mutex = t
\* witness: a thread has allocated from the pool and not yet unlocked,
\* while the other is outside
C21_AllocatedUnderLock ==
    /\ \E t \in Threads : pc[t] = "unlock" /\ mutex = t
    /\ last.op = "allocate"
    /\ last.ret \in live
    /\ ~ub

\* C22: every public entry point of synchronized_tlsf_resource that reads or
\* changes the pool, release() and create_memory_pool() among them, runs
\* under the mutex of allocate and deallocate: no thread releases or
\* replaces the pool while another thread is inside allocate or deallocate.
C22_ReleaseWaitsForCalls ==
    [][(last'.op \in {"release", "create_memory_pool"} /\ calls' /= calls)
         => (mutex = 0 /\ InCall = {})]_vars

\* how often the event e is among the first k of region_log
Times(e, k) == Cardinality({i \in 1..k : region_log[i] = e})
\* every return gives back a region its provider gave with that size and
\* has not got back yet
ReturnsMatch ==
    \A k \in 1..Len(region_log) :
       region_log[k].op = "deallocate" =>
          Times([region_log[k] EXCEPT !.op = "allocate"], k - 1)
            = Times(region_log[k], k - 1) + 1
\* the regions the providers gave and have not got back
Unreturned ==
    {e \in {region_log[k] : k \in 1..Len(region_log)} :
        /\ e.op = "allocate"
        /\ Times(e, Len(region_log))
             > Times([e EXCEPT !.op = "deallocate"], Len(region_log))}

Mapped == arg.fn = "mapping" /\ arg.out /= <<>>
\* the list c is the list d or a list after it
ClassFrom(c, d) == c.fl > d.fl \/ (c.fl = d.fl /\ c.sl >= d.sl)
\* a block of arg.y bytes on its list serves a request of arg.x bytes when
\* the search starts at the list of the request
BlockServes == ClassFrom(arg.out[2], arg.out[1]) => WLe(arg.x, arg.y)

\* C24: for every request size s in [1, BLOCK_SIZE_MAX) with (i, j) =
\* mapping_search(s) and every block size b, a multiple of ALIGN_SIZE in
\* [BLOCK_SIZE_MIN, BLOCK_SIZE_MAX), with (i', j') = mapping_insert(b): if
\* i' > i, or i' = i and j' >= j, then b >= s; mapping_search(1000) is
\* (2, 31) and mapping_search(1500) is (3, 15).
C24_ClassServesRequest ==
    Mapped =>
       /\ BlockServes
       /\ arg.x = SzOf(1000) => arg.out[1] = [fl |-> 2, sl |-> 31]
       /\ arg.x = SzOf(1500) => arg.out[1] = [fl |-> 3, sl |-> 15]

Aligning == arg.fn \in {"align", "align_ptr"} /\ arg.out /= <<>>
\* m is a multiple of a, a power of two
MultipleOf(m, a) == SzAnd(m, SzSub(a, SZ_ONE)) = SZ_ZERO
\* d is the greatest multiple of a that is <= x
GreatestBelow(d, x, a) ==
    MultipleOf(d, a) /\ WLe(d, x) /\ WLt(SzSub(x, d), a)
\* u is the least multiple of a that is >= x
LeastAbove(u, x, a) ==
    MultipleOf(u, a) /\ WLe(x, u) /\ WLt(SzSub(u, x), a)

\* C25: for every x and every power of two a, align_down(x, a) is the
\* greatest multiple of a that is <= x, and align_up(x, a) and
\* align_ptr(x, a) are the least multiple of a that is >= x;
\* align_down(998, 8) = 992, align_down(500, 32) = 480 and
\* align_up(998, 8) = 1000.
C25_AlignedBothWays ==
    Aligning =>
       /\ arg.fn = "align" =>
             /\ GreatestBelow(arg.out[1], arg.x, arg.y)
             /\ LeastAbove(arg.out[2], arg.x, arg.y)
       /\ arg.fn = "align_ptr" => LeastAbove(arg.out[1], arg.x, arg.y)
       /\ (arg.fn = "align" /\ arg.x = SzOf(998) /\ arg.y = SzOf(8)) =>
             arg.out = <<SzOf(992), SzOf(1000)>>
       /\ (arg.fn = "align" /\ arg.x = SzOf(500) /\ arg.y = SzOf(32)) =>
             arg.out[1] = SzOf(480)

BitsFound == arg.fn = "bits" /\ arg.out /= <<>>
\* k is the index of the least significant one bit of w, -1 when w is 0
LowestBit(w, k) ==
    IF w = SZ_ZERO THEN k = -1
    ELSE /\ k \in 0..(SIZE_BITS - 1)
         /\ SzShr(w, k)[1] % 2 = 1
         /\ SzAnd(w, SzLowMask(k)) = SZ_ZERO
\* k is the index of the most significant one bit of w, -1 when w is 0
HighestBit(w, k) ==
    IF w = SZ_ZERO THEN k = -1
    ELSE k \in 0..(SIZE_BITS - 1) /\ SzShr(w, k) = SZ_ONE

\* C26: for every 32-bit word w, tlsf_ffs(w) is the index of its least
\* significant one bit and tlsf_fls(w) the index of its most significant
\* one bit, both -1 when w is 0; for every size_t s other than 0,
\* tlsf_fls_sizet(s) is the index of its most significant one bit, and
\* tlsf_fls_sizet(0x100000000) is 32.
C26_BitIndexes ==
    BitsFound =>
       /\ LowestBit(arg.x, arg.out[1])
       /\ HighestBit(arg.x, arg.out[2])
       /\ arg.y /= SZ_ZERO => HighestBit(arg.y, arg.out[3])
       /\ arg.y = <<0, 0, 1, 0>> => arg.out[3] = UINT_BITS

\* tlsf_ffs(0x80008000) is 15, tlsf_fls(0x80008000) is 31 and
\* tlsf_fls_sizet(0xffffffffffffffff) is 63
C26_TwoBitsSet ==
    /\ BitsFound
    /\ arg.x = <<LIMB \div 2, LIMB \div 2, 0, 0>>
    /\ arg.y = SZ_MAX
    /\ arg.out = <<LIMB_BITS - 1, UINT_BITS - 1, SIZE_BITS - 1>>

\* the block b is in the free list of its size class, and the bits of the
\* class are set in both bitmaps
Indexed(S, b) ==
    LET In(m) ==
            /\ b \in ListFrom(S, S.blocks[m.fl][m.sl], S.pool_size \div PTR_SIZE)
            /\ m.fl \in S.fl_bitmap
            /\ m.sl \in S.sl_bitmap[m.fl]
    IN  In(ListOf(S, b))
\* malloc has cut F, of size sF, down to adjust and left the rest as a free
\* block right behind it
SplitOff(S, F, sF, adjust) ==
    LET Rest(R) ==
            /\ R = F + BLOCK_HEADER_OVERHEAD + adjust
            /\ is_free(S, R)
            /\ get_size(S, R) = sF - adjust - BLOCK_HEADER_OVERHEAD
            /\ Indexed(S, R)
    IN  get_size(S, F) = adjust /\ Rest(get_next(S, F))
\* malloc has returned F, of size sF, as it was: the block behind it is the
\* one that was behind it
ReturnedWhole(S, F, sF) ==
    get_size(S, F) = sF /\ get_next(S, F) = get_next(Pool, F)
\* what malloc has made of the free block F it selected, adjust the adjusted
\* request
MallocTrimmed(S, F, adjust) ==
    IF get_size(Pool, F) >= adjust + SIZEOF_BLOCK_HEADER
    THEN SplitOff(S, F, get_size(Pool, F), adjust)
    ELSE ReturnedWhole(S, F, get_size(Pool, F))

\* C27: when malloc(n) selects a free block F with size(F) >=
\* adjust_request_size(n) + sizeof(block_header), the block returned has
\* size adjust_request_size(n), and a free block of size size(F) -
\* adjust_request_size(n) - BLOCK_HEADER_OVERHEAD is created right behind it
\* and inserted in the index; otherwise F is returned whole, not split.
C27_MallocSplits ==
    [][(last'.op = "malloc" /\ calls' /= calls /\ last'.ret /= NULLPTR
           /\ ~ub')
          => /\ is_free(Pool, from_void_ptr(last'.ret))
             /\ ~is_free(Pool', from_void_ptr(last'.ret))
             /\ MallocTrimmed(Pool', from_void_ptr(last'.ret),
                              SzVal(adjust_request_size(last'.size,
                                                        SzOf(ALIGN_SIZE))))]_vars

\* the first malloc has taken 32 bytes for a request of 25 from the one
\* block of the pool and left the rest free behind them
C27_FirstBlockSplit ==
    /\ ~ub /\ calls = 1
    /\ last.op = "malloc" /\ last.size = SzOf(25)
    /\ RetBlock = FirstBlock
    /\ get_size(Pool, FirstBlock) = SzVal(LastAdjust)
    /\ Len(Chain) = 3
    /\ is_free(Pool, Chain[2])
    /\ get_size(Pool, Chain[2])
          = InitialSize - SzVal(LastAdjust) - BLOCK_HEADER_OVERHEAD
    /\ Indexed(Pool, Chain[2])

\* bit j of sl_bitmap[i] is set iff blocks[i][j] is not block_null, and bit
\* i of fl_bitmap is set iff sl_bitmap[i] is not 0
BitmapsConsistent ==
    /\ \A i \in FlRange : \A j \in SlRange :
           (j \in sl_bitmap[i]) <=> (blocks[i][j] /= BLOCK_NULL)
    /\ \A i \in FlRange : (i \in fl_bitmap) <=> (sl_bitmap[i] /= {})

\* C28: in every reachable state between public operations, for all (i, j),
\* bit j of sl_bitmap[i] is set iff blocks[i][j] is not the null sentinel,
\* and bit i of fl_bitmap is set iff sl_bitmap[i] /= 0 (in every state the
\* calls reach without undefined behaviour).
C28_BitmapsConsistent ==
    ~ub => BitmapsConsistent

\* a free has put a block on a second free list, after mallocs had taken
\* blocks off the lists: two heads, and the bits of both lists
C28_TwoListsInUse ==
    /\ ~ub
    /\ last.op = "free" /\ last.ok
    /\ Cardinality(ListHeads) = 2
    /\ Cardinality(UNION {{<<i, j>> : j \in sl_bitmap[i]} : i \in fl_bitmap}) = 2
    /\ BitmapsConsistent

\* the blocks of the free list that starts at b, in the order of next_free,
\* up to block_null
RECURSIVE ListSeq(_, _, _)
ListSeq(S, b, fuel) ==
    IF fuel = 0 \/ b = BLOCK_NULL \/ (b + OFF_NEXT_FREE) \notin DOMAIN S.mem
    THEN <<>>
    ELSE <<b>> \o ListSeq(S, Rd(S, b + OFF_NEXT_FREE), fuel - 1)
\* the places <<i, j, k, b>>: b is the k-th block of the free list (i, j)
Places ==
    LET At(ij) ==
            LET Along(L) == {<<ij[1], ij[2], k, L[k]>> : k \in 1..Len(L)}
            IN  Along(ListSeq(Pool, blocks[ij[1]][ij[2]],
                              pool_size \div PTR_SIZE))
    IN  UNION {At(ij) : ij \in ListHeads}
\* the block k of the chain c is marked free iff it is in one free list once
FreeFlagRight(places, c, k) ==
    is_free(Pool, c[k]) <=> (Cardinality({p \in places : p[4] = c[k]}) = 1)
\* the block k of the chain c is marked prev_free iff there is a block
\* before it and that block is marked free, and then prev_phys_block points
\* to it
PrevFreeFlagRight(c, k) ==
    /\ is_prev_free(Pool, c[k]) <=> (k > 1 /\ is_free(Pool, c[k - 1]))
    /\ is_prev_free(Pool, c[k])
          => (k > 1 /\ Rd(Pool, c[k] + OFF_PREV_PHYS) = c[k - 1])
FlagsConsistent ==
    LET Each(places, c) ==
            \A k \in 1..Len(c) :
                FreeFlagRight(places, c, k) /\ PrevFreeFlagRight(c, k)
    IN  Each(Places, Chain)

Sentinel == FirstBlock + BLOCK_HEADER_OVERHEAD + InitialSize
RECURSIVE SumSizes(_, _)
SumSizes(c, k) ==
    IF k = 0 THEN 0 ELSE get_size(Pool, c[k]) + SumSizes(c, k - 1)
\* the chain c ends at the sentinel, which is used; the blocks before it are
\* distinct, each of a size that is a multiple of ALIGN_SIZE and at least
\* BLOCK_SIZE_MIN; their sizes and one BLOCK_HEADER_OVERHEAD between each two
\* of them add up to the initial size
WalkRight(c) ==
    /\ c /= <<>>
    /\ c[Len(c)] = Sentinel
    /\ is_last(Pool, Sentinel) /\ ~is_free(Pool, Sentinel)
    /\ Cardinality({c[k] : k \in 1..Len(c)}) = Len(c)
    /\ \A k \in 1..(Len(c) - 1) :
           /\ get_size(Pool, c[k]) % ALIGN_SIZE = 0
           /\ get_size(Pool, c[k]) >= BLOCK_SIZE_MIN
    /\ SumSizes(c, Len(c) - 1) + (Len(c) - 2) * BLOCK_HEADER_OVERHEAD
          = InitialSize

\* C30: in every reachable state between public operations, walking from
\* the first block by next_physical strides visits each block once and ends
\* exactly at the zero-size used terminal sentinel; every block before it
\* has a size that is a multiple of ALIGN_SIZE and at least BLOCK_SIZE_MIN,
\* and the block sizes plus one BLOCK_HEADER_OVERHEAD per block boundary add
\* up to the initial usable pool size (in every state the calls reach
\* without undefined behaviour).
C30_ChainCoversPool ==
    ~ub => WalkRight(Chain)

\* every block of every free list is on the list of its size
ListsByClass ==
    LET Each(places) ==
            \A p \in places :
                ListOf(Pool, p[4]) = [fl |-> p[1], sl |-> p[2]]
    IN  Each(Places)

InRegion(a, len) ==
    memory_pool <= a /\ a + len <= memory_pool + pool_size
\* the header words the pool uses of block b, and its payload, lie in the
\* region
BlockInRegion(b) ==
    /\ InRegion(b + OFF_SIZE, PTR_SIZE)
    /\ is_prev_free(Pool, b) => InRegion(b + OFF_PREV_PHYS, PTR_SIZE)
    /\ is_free(Pool, b) => InRegion(b + OFF_NEXT_FREE, 2 * PTR_SIZE)
    /\ InRegion(to_void_ptr(b), get_size(Pool, b))

\* C32: after construction over a region of N bytes and after every
\* operation, every header word the pool reads or writes (the size field of
\* every block, the terminal sentinel included, prev_phys_block of a block
\* with PREV_FREE set, the free-list links of free blocks) and every payload
\* byte of every block lies inside [region, region + N); the payload of the
\* primary block starts at region + BLOCK_HEADER_OVERHEAD.
C32_InsideRegion ==
    (~ub /\ is_allocated) =>
        /\ to_void_ptr(FirstBlock) = memory_pool + BLOCK_HEADER_OVERHEAD
        /\ \A k \in 1..Len(Chain) : BlockInRegion(Chain[k])
        /\ BlockInRegion(Sentinel)

\* the n bytes at p, n a size_t, and the len bytes at a have a byte in common
Overlaps(p, n, a, len) ==
    IF a >= p THEN WLt(SzOf(a - p), n) ELSE p < a + len
\* the last call returned an allocation
Allocated ==
    last.op \in {"malloc", "memalign", "realloc"} /\ last.ret /= NULLPTR
\* the bytes [p, p + n) of the allocation the last call returned hold no
\* size word of a block header and no byte of another live allocation
RangeApart ==
    /\ \A k \in 1..Len(Chain) :
           ~Overlaps(last.ret, last.size, Chain[k] + OFF_SIZE, PTR_SIZE)
    /\ \A q \in live \ {last.ret} : ~Overlaps(last.ret, last.size, q, 1)

\* C33: in every reachable state, the byte ranges [p, p + n) of all live
\* allocations (p returned by malloc, memalign or realloc for the requested
\* size n and not yet freed) are pairwise disjoint and disjoint from the
\* size word of every block header; stated for the allocation that the last
\* call returned, against every block of the chain and every other live
\* pointer.
C33_AllocationsApart ==
    (~ub /\ Allocated) => RangeApart

\* the blocks on the free lists
FreeBlocks == {p[4] : p \in Places}
\* 1 when the block b is there and free, else 0
FreeAt(there, b) == IF there /\ is_free(Pool, b) THEN 1 ELSE 0
\* the free of the used block B, with the block prev before it (pf is 1 when
\* it is free) and the block next behind it (nf is 1 when it is free), has
\* left one free block from the first of the free ones to the last
Merged(B, prev, pf, next, nf) ==
    LET Left(start, size) ==
            /\ is_free(Pool', start)
            /\ get_size(Pool', start) = size
            /\ start \in FreeBlocks'
            /\ (pf = 1) => prev \in FreeBlocks /\ prev = start
            /\ (nf = 1) => next \in FreeBlocks /\ next \notin FreeBlocks'
            /\ Cardinality(FreeBlocks') = Cardinality(FreeBlocks) + 1 - pf - nf
    IN  Left(IF pf = 1 THEN prev ELSE B,
             get_size(Pool, B)
               + pf * (get_size(Pool, prev) + BLOCK_HEADER_OVERHEAD)
               + nf * (get_size(Pool, next) + BLOCK_HEADER_OVERHEAD))
\* the same, the neighbours taken from the header of B
FreeMerges(B) ==
    Merged(B, Rd(Pool, B + OFF_PREV_PHYS),
           FreeAt(is_prev_free(Pool, B), Rd(Pool, B + OFF_PREV_PHYS)),
           get_next(Pool, B), FreeAt(TRUE, get_next(Pool, B)))

Searched == arg.fn = "search" /\ arg.out /= <<>>
\* the lists with blocks that search_suitable_block may use from (i, j)
ListsFrom(lists, i, j) ==
    {l \in lists : (l[1] = i /\ l[2] >= j) \/ l[1] > i}
\* the first of the lists ls in the order of (fl, sl)
FirstList(ls) ==
    CHOOSE l \in ls :
        \A m \in ls : l[1] < m[1] \/ (l[1] = m[1] /\ l[2] <= m[2])
\* found is what the search from (i, j) has to give when ls are the lists
\* it may use
SearchRight(found, ls) ==
    /\ ~found.ub
    /\ found.block /= BLOCK_NULL
    /\ (found.block = NULLPTR) <=> (ls = {})
    /\ ls /= {} =>
          /\ <<found.fl, found.sl>> = FirstList(ls)
          /\ found.block = blocks[found.fl][found.sl]

\* C35: for every index state that satisfies bitmap consistency and every
\* start (i, j) with i < FL_INDEX_COUNT, search_suitable_block returns the
\* head of the first list in the order of (i', j') that holds blocks and has
\* i' = i and j' >= j, or i' > i, and sets (i, j) to (i', j'); it returns
\* null iff there is no such list, and never returns the null sentinel.
C35_SearchFindsFirst ==
    Searched =>
       /\ BitmapsConsistent
       /\ SearchRight(arg.out[1], ListsFrom(ListsOf(arg.x), arg.y[1], arg.y[2]))

\* the search from (1, 4) has passed the lists (0, 31) and (1, 0) and the
\* empty rest of class 1 and found the list (5, 7)
C35_FoundInHigherClass ==
    /\ Searched
    /\ ListsOf(arg.x) = {<<0, SL_INDEX_COUNT - 1>>, <<1, 0>>, <<5, 7>>,
                          <<FL_INDEX_COUNT - 1, 0>>}
    /\ arg.y = <<1, 4, 0, 0>>
    /\ arg.out[1] = [block |-> HeadOf(5, 7), fl |-> 5, sl |-> 7, ub |-> FALSE]

\* C36: realloc(p, n) with p non-null and n > 0 compares from_void_ptr(p)
\* with [memory_pool, memory_pool + pool_size) before it reads a header
\* field of the block, so a pointer the pool does not own never has its
\* header read or modified by realloc, as in free: the call leaves the pool
\* as it was and reaches no word outside the pool's memory.
C36_ReallocRejectsForeign ==
    [][(last'.op = "realloc" /\ calls' /= calls
           /\ last'.ptr /= NULLPTR /\ last'.size /= SZ_ZERO
           /\ NotOurs(last'.ptr))
          => UNCHANGED poolvars]_vars

\* C37: the mutex of a synchronized_tlsf_resource is not held whenever no
\* allocate or deallocate call is in progress, on every exit path, the one
\* where the pool returns null and the upstream allocation throws among
\* them; so a call issued after such a failure can take the mutex.
C37_MutexFreeWhenIdle ==
    (~ub /\ Locked = {}) => mutex = 0

\* create_memory_pool's test and mapping_insert were applied to arg.x
Inserted == arg.fn = "insert" /\ arg.out /= <<>>
\* C38: for every block size that construction accepts, a multiple of
\* ALIGN_SIZE in [BLOCK_SIZE_MIN, BLOCK_SIZE_MAX], a pool of exactly
\* BLOCK_SIZE_MAX among them, mapping_insert gives 0 <= fl < FL_INDEX_COUNT
\* and 0 <= sl < SL_INDEX_COUNT, so that block_insert and block_remove index
\* sl_bitmap[] and blocks[][] in range.
C38_IndexInRange ==
    (Inserted /\ arg.out[1]) =>
        /\ arg.out[2].fl \in 0..(FL_INDEX_COUNT - 1)
        /\ arg.out[2].sl \in 0..(SL_INDEX_COUNT - 1)

\* the free blocks whose payload holds the address p
Selected(p) ==
    {b \in FreeBlocks :
        to_void_ptr(b) <= p /\ p < to_void_ptr(b) + get_size(Pool, b)}
\* memalign has returned p, gap bytes into the payload of the free block b:
\* the gap is 0 or at least a block header; when it is not 0, b could be
\* split at the gap, the leading part is b on a free list with
\* gap - BLOCK_HEADER_OVERHEAD >= BLOCK_SIZE_MIN bytes, and the rest had
\* size >= adjust
GapCut(b, p, gap, adjust) ==
    /\ gap = 0 \/ gap >= SIZEOF_BLOCK_HEADER
    /\ gap /= 0 =>
          /\ can_split(Pool, b, SzOf(gap))
          /\ b \in FreeBlocks'
          /\ is_free(Pool', b)
          /\ get_size(Pool', b) = gap - BLOCK_HEADER_OVERHEAD
          /\ get_size(Pool', b) >= BLOCK_SIZE_MIN
          /\ get_next(Pool', b) = from_void_ptr(p)
          /\ WLe(adjust, SzOf(get_size(Pool, b) - gap))
          /\ WLe(adjust, SzOf(get_size(Pool', from_void_ptr(p))))

\* C39: in memalign(align, n) with align > ALIGN_SIZE, the gap between the
\* payload of the selected free block and the returned aligned pointer is 0
\* or at least sizeof(block_header); when it is not 0 the selected block can
\* be split at the gap, the leading part is put back as a free block of
\* size >= BLOCK_SIZE_MIN, and the remaining block has size >=
\* adjust_request_size(n).
C39_LeadingGap ==
    [][(last'.op = "memalign" /\ calls' /= calls /\ ~ub'
           /\ last'.align > ALIGN_SIZE /\ last'.ret /= NULLPTR)
          => \E b \in Selected(last'.ret) :
                GapCut(b, last'.ret, last'.ret - to_void_ptr(b),
                       adjust_request_size(last'.size, SzOf(ALIGN_SIZE)))]_vars

\* an aligned allocation was cut out of a free block behind a gap: the block
\* before the returned one is free, on a free list, and ends where the
\* returned block starts
C39_GapLeftFree ==
    /\ ~ub
    /\ last.op = "memalign" /\ last.align > ALIGN_SIZE
    /\ last.ret /= NULLPTR /\ last.ret % last.align = 0
    /\ is_prev_free(Pool, RetBlock)
    /\ Rd(Pool, RetBlock + OFF_PREV_PHYS) \in FreeBlocks
    /\ get_size(Pool, Rd(Pool, RetBlock + OFF_PREV_PHYS))
          >= SIZEOF_BLOCK_HEADER - BLOCK_HEADER_OVERHEAD
====
